---------------------------- MODULE Spec2Model ----------------------------
(***************************************************************************)
(* Auto-Fill extension: the content-script side.                           *)
(*                                                                         *)
(*   content/masterDetector.js   field detection, experience cards,        *)
(*                               message handler                           *)
(*   content/masterInjection.js  value resolver, field writer, fill        *)
(*                               orchestrator (two revisions of the file   *)
(*                               are kept in the repository)               *)
(*                                                                         *)
(* Strings are TLA+ strings; Len, SubSeq and \o act on them character by   *)
(* character.  Confidences are fixed-point numbers in units of 1/Micro.    *)
(***************************************************************************)
EXTENDS Integers, Sequences, FiniteSets, TLC

(***************************************************************************)
(* String primitives used by the JavaScript source                         *)
(***************************************************************************)
UpperChars == "ABCDEFGHIJKLMNOPQRSTUVWXYZ"
LowerChars == "abcdefghijklmnopqrstuvwxyz"
DigitChars == "0123456789"

CharAt(s, i) == SubSeq(s, i, i)

UpperSet == { CharAt(UpperChars, i) : i \in 1..Len(UpperChars) }
AlnumSet == { CharAt(LowerChars, i) : i \in 1..Len(LowerChars) }
               \cup { CharAt(DigitChars, i) : i \in 1..Len(DigitChars) }
DigitSet == { CharAt(DigitChars, i) : i \in 1..Len(DigitChars) }

LowerOfUpper == [ c \in UpperSet |->
                    CharAt(LowerChars, CHOOSE i \in 1..Len(UpperChars) : CharAt(UpperChars, i) = c) ]

LowerChar(c) == IF c \in UpperSet THEN LowerOfUpper[c] ELSE c

RECURSIVE MapChars(_, _, _)
MapChars(s, i, acc) ==
    IF i > Len(s) THEN acc ELSE MapChars(s, i + 1, acc \o LowerChar(CharAt(s, i)))

(* String.prototype.toLowerCase *)
toLowerCase(s) == MapChars(s, 1, "")

AlnumChar(c) == IF c \in AlnumSet THEN c ELSE ""

RECURSIVE KeepAlnum(_, _, _)
KeepAlnum(s, i, acc) ==
    IF i > Len(s) THEN acc ELSE KeepAlnum(s, i + 1, acc \o AlnumChar(CharAt(s, i)))

(* String.prototype.includes *)
includes(s, sub) ==
    \/ Len(sub) = 0
    \/ \E i \in 1..(Len(s) - Len(sub) + 1) : SubSeq(s, i, i + Len(sub) - 1) = sub

RECURSIVE TrimStart(_)
TrimStart(s) == IF Len(s) > 0 /\ CharAt(s, 1) = " " THEN TrimStart(SubSeq(s, 2, Len(s))) ELSE s

RECURSIVE TrimEnd(_)
TrimEnd(s) == IF Len(s) > 0 /\ CharAt(s, Len(s)) = " " THEN TrimEnd(SubSeq(s, 1, Len(s) - 1)) ELSE s

(* String.prototype.trim *)
trim(s) == TrimEnd(TrimStart(s))

RECURSIVE FlatFrom(_, _, _)
FlatFrom(ss, i, acc) ==
    IF i > Len(ss) THEN acc ELSE FlatFrom(ss, i + 1, acc \o ss[i])

(* Array.prototype.flat over a sequence of sequences *)
Flat(ss) == FlatFrom(ss, 1, <<>>)

Min2(a, b) == IF a < b THEN a ELSE b
Max2(a, b) == IF a > b THEN a ELSE b

(***************************************************************************)
(* masterDetector.js: utility functions                                    *)
(***************************************************************************)
RECURSIVE LevRow(_, _, _, _, _)
(* one row of the matrix: acc holds matrix[j][0..i-1], prev is matrix[j-1] *)
LevRow(str1, cj, prev, i, acc) ==
    IF i > Len(str1) THEN acc
    ELSE LET indicator == IF CharAt(str1, i) = cj THEN 0 ELSE 1
             cell == Min2(Min2(acc[i] + 1, prev[i + 1] + 1), prev[i] + indicator)
             next == Append(acc, cell)
         IN IF Len(next) >= 0 THEN LevRow(str1, cj, prev, i + 1, next) ELSE next

RECURSIVE LevRows(_, _, _, _)
LevRows(str1, str2, j, prev) ==
    IF j > Len(str2) THEN prev
    ELSE LET row == LevRow(str1, CharAt(str2, j), prev, 1, <<j>>)
         IN IF Len(row) >= 0 THEN LevRows(str1, str2, j + 1, row) ELSE row

calculateLevenshteinDistance(str1, str2) ==
    LevRows(str1, str2, 1, [i \in 1..(Len(str1) + 1) |-> i - 1])[Len(str1) + 1]

Micro == 1000 * 1000

(* similarity in units of 1/Micro *)
calculateSimilarity(str1, str2) ==
    LET maxLength == Max2(Len(str1), Len(str2))
    IN IF maxLength = 0 THEN Micro
       ELSE Micro - ((calculateLevenshteinDistance(toLowerCase(str1), toLowerCase(str2)) * Micro)
                        \div maxLength)

normalizeString(str) == trim(KeepAlnum(toLowerCase(str), 1, ""))

(* Object.entries(MASTER_FIELD_DATABASE) yields the categories in this order. *)
FieldTypes ==
    << "firstName", "lastName", "fullName", "email", "phone",
       "addressLine1", "addressLine2", "city", "state", "postalCode",
       "country", "currentLocation", "jobTitle", "company", "totalExperience",
       "currentSalary", "expectedSalary", "noticePeriod", "linkedinUrl", "githubUrl",
       "portfolioUrl", "skills", "education", "startDate", "endDate" >>

MASTER_FIELD_DATABASE ==
    [ firstName |->
        [ keywords |-> <<"first", "fname", "given", "forename", "christian", "first-name", "firstname", "first_name", "applicant_first", "candidate_first">>,
          priority |-> 10,
          contextKeywords |-> <<"first", "given", "christian", "forename">> ],
      lastName |->
        [ keywords |-> <<"last", "lname", "family", "surname", "lastname", "last-name", "last_name", "applicant_last", "candidate_last">>,
          priority |-> 10,
          contextKeywords |-> <<"last", "family", "surname">> ],
      fullName |->
        [ keywords |-> <<"fullname", "full_name", "complete_name", "applicant_name", "candidate_name">>,
          priority |-> 12,
          contextKeywords |-> <<"full", "complete", "entire">> ],
      email |->
        [ keywords |-> <<"email", "mail", "electronic", "contact", "e-mail", "email-address", "contact-email">>,
          priority |-> 9,
          contextKeywords |-> <<"email", "electronic", "contact">> ],
      phone |->
        [ keywords |-> <<"phone", "telephone", "mobile", "cell", "contact", "phone-number", "contact-number">>,
          priority |-> 8,
          contextKeywords |-> <<"phone", "mobile", "telephone", "cell">> ],
      addressLine1 |->
        [ keywords |-> <<"address", "street", "line1", "addr1", "location", "address-line-1", "street-address">>,
          priority |-> 7,
          contextKeywords |-> <<"address", "street", "location">> ],
      addressLine2 |->
        [ keywords |-> <<"line2", "addr2", "apartment", "apt", "suite", "unit", "address-line-2">>,
          priority |-> 6,
          contextKeywords |-> <<"apartment", "suite", "unit">> ],
      city |->
        [ keywords |-> <<"city", "town", "locality", "municipality">>,
          priority |-> 7,
          contextKeywords |-> <<"city", "town", "locality">> ],
      state |->
        [ keywords |-> <<"state", "province", "region", "territory">>,
          priority |-> 7,
          contextKeywords |-> <<"state", "province", "region">> ],
      postalCode |->
        [ keywords |-> <<"postal", "zip", "postcode", "pincode", "zipcode", "postal-code">>,
          priority |-> 7,
          contextKeywords |-> <<"postal", "zip", "pin">> ],
      country |->
        [ keywords |-> <<"country", "nation", "nationality", "region">>,
          priority |-> 7,
          contextKeywords |-> <<"country", "nation">> ],
      currentLocation |->
        [ keywords |-> <<"current", "location", "present", "residing", "based", "current-location">>,
          priority |-> 6,
          contextKeywords |-> <<"current", "present", "residing">> ],
      jobTitle |->
        [ keywords |-> <<"title", "position", "role", "designation", "job", "job-title">>,
          priority |-> 6,
          contextKeywords |-> <<"title", "position", "role">> ],
      company |->
        [ keywords |-> <<"company", "employer", "organization", "firm", "workplace">>,
          priority |-> 6,
          contextKeywords |-> <<"company", "employer", "organization">> ],
      totalExperience |->
        [ keywords |-> <<"total", "experience", "years", "overall", "work", "professional">>,
          priority |-> 6,
          contextKeywords |-> <<"experience", "years", "total">> ],
      currentSalary |->
        [ keywords |-> <<"current", "current-ctc", "compensation", "pay", "current-salary">>,
          priority |-> 6,
          contextKeywords |-> <<"current", "salary", "compensation">> ],
      expectedSalary |->
        [ keywords |-> <<"expected", "expected-ctc", "desired", "target", "expected-salary">>,
          priority |-> 6,
          contextKeywords |-> <<"expected", "desired", "target">> ],
      noticePeriod |->
        [ keywords |-> <<"notice", "period", "availability", "joining", "start", "notice-period">>,
          priority |-> 6,
          contextKeywords |-> <<"notice", "availability", "joining">> ],
      linkedinUrl |->
        [ keywords |-> <<"linkedin", "profile", "professional", "network", "linkedin-url">>,
          priority |-> 6,
          contextKeywords |-> <<"linkedin", "professional", "profile">> ],
      githubUrl |->
        [ keywords |-> <<"github", "git", "repository", "github-url">>,
          priority |-> 6,
          contextKeywords |-> <<"github", "git">> ],
      portfolioUrl |->
        [ keywords |-> <<"portfolio", "website", "personal", "blog", "site", "portfolio-url">>,
          priority |-> 6,
          contextKeywords |-> <<"portfolio", "website", "personal">> ],
      skills |->
        [ keywords |-> <<"skills", "technologies", "expertise", "competencies", "technical">>,
          priority |-> 5,
          contextKeywords |-> <<"skills", "technologies", "expertise">> ],
      education |->
        [ keywords |-> <<"education", "degree", "qualification", "university", "college">>,
          priority |-> 5,
          contextKeywords |-> <<"education", "degree", "qualification">> ],
      startDate |->
        [ keywords |-> <<"start", "from", "begin", "commenced", "joined", "start-date">>,
          priority |-> 5,
          contextKeywords |-> <<"start", "from", "begin">> ],
      endDate |->
        [ keywords |-> <<"end", "to", "until", "finished", "left", "end-date">>,
          priority |-> 5,
          contextKeywords |-> <<"end", "to", "until">> ] ]
PortalKeys == <<"linkedin", "indeed", "glassdoor", "monster", "workday">>

PORTAL_CONFIGS ==
    [ linkedin |->
        [ name |-> "LinkedIn", domain |-> "linkedin.com",
          selectorFields |-> <<"firstName", "lastName", "email", "phone", "linkedinUrl">>,
          specificSelectors |->
            [ firstName |-> <<
                [tag |-> "", attr |-> "id", op |-> "=", val |-> "single-line-text-form-component-firstName"],
                [tag |-> "INPUT", attr |-> "name", op |-> "*=", val |-> "firstName"],
                [tag |-> "INPUT", attr |-> "id", op |-> "*=", val |-> "firstName"],
                [tag |-> "INPUT", attr |-> "aria-label", op |-> "*=", val |-> "First name"],
                [tag |-> "INPUT", attr |-> "placeholder", op |-> "*=", val |-> "First name"] >>,
              lastName |-> <<
                [tag |-> "", attr |-> "id", op |-> "=", val |-> "single-line-text-form-component-lastName"],
                [tag |-> "INPUT", attr |-> "name", op |-> "*=", val |-> "lastName"],
                [tag |-> "INPUT", attr |-> "id", op |-> "*=", val |-> "lastName"],
                [tag |-> "INPUT", attr |-> "aria-label", op |-> "*=", val |-> "Last name"],
                [tag |-> "INPUT", attr |-> "placeholder", op |-> "*=", val |-> "Last name"] >>,
              email |-> <<
                [tag |-> "INPUT", attr |-> "name", op |-> "*=", val |-> "email"],
                [tag |-> "", attr |-> "id", op |-> "=", val |-> "email-address"] >>,
              phone |-> <<
                [tag |-> "INPUT", attr |-> "name", op |-> "*=", val |-> "phone"],
                [tag |-> "", attr |-> "id", op |-> "=", val |-> "phone-number"] >>,
              linkedinUrl |-> <<
                [tag |-> "INPUT", attr |-> "name", op |-> "*=", val |-> "linkedinUrl"],
                [tag |-> "INPUT", attr |-> "name", op |-> "*=", val |-> "linkedin"] >> ],
          excludePatterns |-> <<"hidden", "csrf", "token">> ],
      indeed |->
        [ name |-> "Indeed", domain |-> "indeed.com",
          selectorFields |-> <<"firstName", "lastName", "email", "phone">>,
          specificSelectors |->
            [ firstName |-> <<
                [tag |-> "INPUT", attr |-> "name", op |-> "=", val |-> "applicant.firstName"],
                [tag |-> "INPUT", attr |-> "name", op |-> "*=", val |-> "firstName"],
                [tag |-> "INPUT", attr |-> "name", op |-> "*=", val |-> "first"],
                [tag |-> "INPUT", attr |-> "id", op |-> "*=", val |-> "firstName"],
                [tag |-> "INPUT", attr |-> "placeholder", op |-> "*=", val |-> "First name"] >>,
              lastName |-> <<
                [tag |-> "INPUT", attr |-> "name", op |-> "=", val |-> "applicant.lastName"],
                [tag |-> "INPUT", attr |-> "name", op |-> "*=", val |-> "lastName"],
                [tag |-> "INPUT", attr |-> "name", op |-> "*=", val |-> "last"],
                [tag |-> "INPUT", attr |-> "id", op |-> "*=", val |-> "lastName"],
                [tag |-> "INPUT", attr |-> "placeholder", op |-> "*=", val |-> "Last name"] >>,
              email |-> <<
                [tag |-> "INPUT", attr |-> "name", op |-> "=", val |-> "applicant.email"],
                [tag |-> "INPUT", attr |-> "name", op |-> "*=", val |-> "email"] >>,
              phone |-> <<
                [tag |-> "INPUT", attr |-> "name", op |-> "=", val |-> "applicant.phone"],
                [tag |-> "INPUT", attr |-> "name", op |-> "*=", val |-> "phone"] >> ],
          excludePatterns |-> <<"recaptcha", "hidden">> ],
      glassdoor |->
        [ name |-> "Glassdoor", domain |-> "glassdoor.com",
          selectorFields |-> <<"firstName", "lastName", "email", "phone">>,
          specificSelectors |->
            [ firstName |-> <<
                [tag |-> "INPUT", attr |-> "name", op |-> "*=", val |-> "firstName"],
                [tag |-> "", attr |-> "id", op |-> "=", val |-> "firstName"],
                [tag |-> "INPUT", attr |-> "name", op |-> "*=", val |-> "first"],
                [tag |-> "INPUT", attr |-> "id", op |-> "*=", val |-> "first"] >>,
              lastName |-> <<
                [tag |-> "INPUT", attr |-> "name", op |-> "*=", val |-> "lastName"],
                [tag |-> "", attr |-> "id", op |-> "=", val |-> "lastName"],
                [tag |-> "INPUT", attr |-> "name", op |-> "*=", val |-> "last"],
                [tag |-> "INPUT", attr |-> "id", op |-> "*=", val |-> "last"] >>,
              email |-> <<
                [tag |-> "INPUT", attr |-> "name", op |-> "*=", val |-> "email"],
                [tag |-> "", attr |-> "id", op |-> "=", val |-> "email"] >>,
              phone |-> <<
                [tag |-> "INPUT", attr |-> "name", op |-> "*=", val |-> "phone"],
                [tag |-> "", attr |-> "id", op |-> "=", val |-> "phone"] >> ],
          excludePatterns |-> <<"password", "hidden">> ],
      monster |->
        [ name |-> "Monster", domain |-> "monster.com",
          selectorFields |-> <<"firstName", "lastName", "email", "phone">>,
          specificSelectors |->
            [ firstName |-> <<
                [tag |-> "INPUT", attr |-> "name", op |-> "*=", val |-> "first"],
                [tag |-> "", attr |-> "id", op |-> "=", val |-> "firstname"],
                [tag |-> "INPUT", attr |-> "id", op |-> "*=", val |-> "firstName"] >>,
              lastName |-> <<
                [tag |-> "INPUT", attr |-> "name", op |-> "*=", val |-> "last"],
                [tag |-> "", attr |-> "id", op |-> "=", val |-> "lastname"],
                [tag |-> "INPUT", attr |-> "id", op |-> "*=", val |-> "lastName"] >>,
              email |-> <<
                [tag |-> "INPUT", attr |-> "name", op |-> "*=", val |-> "email"] >>,
              phone |-> <<
                [tag |-> "INPUT", attr |-> "name", op |-> "*=", val |-> "phone"] >> ],
          excludePatterns |-> <<"hidden", "captcha">> ],
      workday |->
        [ name |-> "Workday", domain |-> "workday.com",
          selectorFields |-> <<"firstName", "lastName">>,
          specificSelectors |->
            [ firstName |-> <<
                [tag |-> "INPUT", attr |-> "name", op |-> "*=", val |-> "givenName"],
                [tag |-> "INPUT", attr |-> "name", op |-> "*=", val |-> "firstName"],
                [tag |-> "INPUT", attr |-> "data-automation-id", op |-> "*=", val |-> "firstName"] >>,
              lastName |-> <<
                [tag |-> "INPUT", attr |-> "name", op |-> "*=", val |-> "familyName"],
                [tag |-> "INPUT", attr |-> "name", op |-> "*=", val |-> "lastName"],
                [tag |-> "INPUT", attr |-> "data-automation-id", op |-> "*=", val |-> "lastName"] >> ],
          excludePatterns |-> <<"hidden", "token">> ] ]

(***************************************************************************)
(* A form control of the page.  The fields are the DOM properties and      *)
(* attributes the scripts read:                                            *)
(*   tagName, type, name, id, className, placeholder, ariaLabel,           *)
(*   dataTestid, title, dataAutomationId, readOnly, disabled, hidden,      *)
(*   labelText (text of the <label for=id> element, "" when there is none) *)
(*   parent    (index of the enclosing container in page.containers, 0 for *)
(*              a control directly under <body>)                           *)
(*   options   (of a SELECT: sequence of [value, text])                    *)
(***************************************************************************)

(* Object.entries(getElementAttributes(element)): the values, in key order *)
getElementAttributes(element) ==
    << element.name, element.id, element.className, element.placeholder,
       IF element.type = "" THEN "text" ELSE element.type,
       element.ariaLabel, element.dataTestid, element.title >>

(* labelText is the text of the label[for=id] element of the page and     *)
(* nearbyText the text that the fallbacks (enclosing label, sibling label, *)
(* preceding sibling with text) find; "" when there is none                *)
findAssociatedLabel(element) ==
    IF element.id # "" /\ element.labelText # "" THEN trim(element.labelText)
    ELSE trim(element.nearbyText)

Vote(field, confidence, method, priority) ==
    [field |-> field, confidence |-> confidence, method |-> method, priority |-> priority]

directAttributeMatching(element) ==
    LET attributes == getElementAttributes(element)
        OneKeyword(fieldType, attrValue, keyword) ==
            LET normalizedValue == normalizeString(attrValue)
                keywordNormalizeString == normalizeString(keyword)
                confidenceLevel ==
                    IF normalizedValue = keywordNormalizeString THEN 950000
                    ELSE IF includes(normalizedValue, keywordNormalizeString) THEN 700000
                    ELSE 0
            IN IF confidenceLevel # 0
               THEN << Vote(fieldType, confidenceLevel, "direct",
                            MASTER_FIELD_DATABASE[fieldType].priority) >>
               ELSE <<>>
        OneAttr(fieldType, attrValue) ==
            IF attrValue = "" THEN <<>>
            ELSE LET kws == MASTER_FIELD_DATABASE[fieldType].keywords
                 IN Flat([k \in 1..Len(kws) |-> OneKeyword(fieldType, attrValue, kws[k])])
        OneField(fieldType) ==
            Flat([a \in 1..Len(attributes) |-> OneAttr(fieldType, attributes[a])])
    IN Flat([f \in 1..Len(FieldTypes) |-> OneField(FieldTypes[f])])

fuzzyKeywordMatching(element) ==
    LET attributes == getElementAttributes(element)
        OnePair(fieldType, keyword, attrValue) ==
            IF attrValue = "" THEN <<>>
            ELSE LET similarity == calculateSimilarity(attrValue, keyword)
                 IN IF similarity > 700000
                    THEN << Vote(fieldType, (similarity * 8) \div 10, "fuzzy",
                                 MASTER_FIELD_DATABASE[fieldType].priority) >>
                    ELSE <<>>
        OneKeyword(fieldType, keyword) ==
            Flat([a \in 1..Len(attributes) |-> OnePair(fieldType, keyword, attributes[a])])
        OneField(fieldType) ==
            LET kws == MASTER_FIELD_DATABASE[fieldType].keywords
            IN Flat([k \in 1..Len(kws) |-> OneKeyword(fieldType, kws[k])])
    IN Flat([f \in 1..Len(FieldTypes) |-> OneField(FieldTypes[f])])

contextualAnalysis(element) ==
    LET labelText == findAssociatedLabel(element)
        normalizedLabel == normalizeString(labelText)
        OneField(fieldType) ==
            LET cks == MASTER_FIELD_DATABASE[fieldType].contextKeywords
            IN Flat([k \in 1..Len(cks) |->
                    IF includes(normalizedLabel, normalizeString(cks[k]))
                    THEN << Vote(fieldType, 750000, "contextual",
                                 MASTER_FIELD_DATABASE[fieldType].priority) >>
                    ELSE <<>>])
    IN IF labelText = "" THEN <<>>
       ELSE Flat([f \in 1..Len(FieldTypes) |-> OneField(FieldTypes[f])])

SemanticFields ==
    << "firstName", "lastName", "email", "phone", "linkedinUrl", "githubUrl",
       "totalExperience", "currentSalary", "expectedSalary" >>

semanticPatterns ==
    [ firstName |-> <<"given name", "christian name", "forename">>,
      lastName |-> <<"family name", "surname", "last name">>,
      email |-> <<"email address", "electronic mail", "contact email">>,
      phone |-> <<"phone number", "telephone number", "mobile number", "contact number">>,
      linkedinUrl |-> <<"linkedin profile", "professional profile", "linkedin url">>,
      githubUrl |-> <<"github profile", "github url", "repository url">>,
      totalExperience |-> <<"years of experience", "work experience", "professional experience">>,
      currentSalary |-> <<"current salary", "current compensation", "present salary">>,
      expectedSalary |-> <<"expected salary", "desired salary", "salary expectation">> ]

RECURSIVE JoinWith(_, _)
(* Array.prototype.join *)
JoinWith(parts, sep) ==
    IF Len(parts) = 0 THEN ""
    ELSE IF Len(parts) = 1 THEN parts[1]
    ELSE parts[1] \o sep \o JoinWith(Tail(parts), sep)

semanticAnalysis(element) ==
    LET attributes == getElementAttributes(element)
        labelText == findAssociatedLabel(element)
        combinedText == toLowerCase(JoinWith(attributes, " ") \o " " \o labelText)
        OneField(fieldType) ==
            LET patterns == semanticPatterns[fieldType]
            IN Flat([p \in 1..Len(patterns) |->
                    IF includes(combinedText, patterns[p])
                    THEN << Vote(fieldType, 850000, "semantic",
                                 MASTER_FIELD_DATABASE[fieldType].priority) >>
                    ELSE <<>>])
    IN Flat([f \in 1..Len(SemanticFields) |-> OneField(SemanticFields[f])])

(* Element.matches for the selector shapes of PORTAL_CONFIGS:              *)
(* #id, tag[attr="v"] and tag[attr*="v"]                                   *)
AttributeOf(element, attr) ==
    CASE attr = "name" -> element.name
      [] attr = "id" -> element.id
      [] attr = "class" -> element.className
      [] attr = "placeholder" -> element.placeholder
      [] attr = "aria-label" -> element.ariaLabel
      [] attr = "data-automation-id" -> element.dataAutomationId
      [] attr = "data-testid" -> element.dataTestid
      [] attr = "data-cy" -> element.dataCy
      [] attr = "role" -> element.role
      [] OTHER -> ""

matches(element, selector) ==
    /\ selector.tag = "" \/ selector.tag = element.tagName
    /\ LET v == AttributeOf(element, selector.attr)
       IN IF selector.op = "=" THEN v = selector.val
          ELSE v # "" /\ includes(v, selector.val)

(* portalConfig is kept as a key: "null" (no portal), "generic" (the       *)
(* configuration identifyJobPortal builds for an unknown job site) or a key *)
(* of PORTAL_CONFIGS.                                                       *)
portalSpecificMatching(element, config) ==
    IF config \in {"null", "generic"} THEN <<>>
    ELSE LET known == PORTAL_CONFIGS[config]
             OneField(fieldType) ==
                 LET selectors == known.specificSelectors[fieldType]
                 IN Flat([s \in 1..Len(selectors) |->
                         IF matches(element, selectors[s])
                         THEN << Vote(fieldType, 980000, "portal-specific",
                                      MASTER_FIELD_DATABASE[fieldType].priority + 2) >>
                         ELSE <<>>])
         IN Flat([f \in 1..Len(known.selectorFields) |-> OneField(known.selectorFields[f])])

(* the key of a control in learningData *)
Fingerprint(element) == element.name \o "|" \o element.id \o "|" \o element.className

(* the positions from i on, in the insertion-ordered Map, of a fingerprint *)
LearnedAt(learned, fingerprint, i) ==
    {k \in i..Len(learned) : learned[k].fingerprint = fingerprint}

FirstOf(positions) ==
    IF positions = {} THEN 0
    ELSE CHOOSE k \in positions : \A j \in positions : k <= j

(* position of a fingerprint in the insertion-ordered Map, 0 when absent *)
LearnedIndex(learned, fingerprint, i) == FirstOf(LearnedAt(learned, fingerprint, i))

(* learningBasedDetection with the boost left uncapped *)
learningBasedDetectionUncapped(element, learned) ==
    LET fingerprint == Fingerprint(element)
        at == LearnedIndex(learned, fingerprint, 1)
    IN IF at = 0 THEN <<>>
       ELSE << Vote(learned[at].fieldType, learned[at].confidence + 100000, "learning",
                    MASTER_FIELD_DATABASE[learned[at].fieldType].priority) >>

learningBasedDetection(element, learned) ==
    LET fingerprint == Fingerprint(element)
        at == LearnedIndex(learned, fingerprint, 1)
    IN IF at = 0 THEN <<>>
       ELSE LET learnedData == learned[at]
            IN << Vote(learnedData.fieldType,
                       Min2(learnedData.confidence + 100000, 950000),
                       "learning",
                       MASTER_FIELD_DATABASE[learnedData.fieldType].priority) >>

(* weights of which one is above 1 *)
methodWeightsBoosted(method) ==
    CASE method = "portal-specific" -> 120
      [] method = "direct" -> 90
      [] method = "semantic" -> 80
      [] method = "contextual" -> 70
      [] method = "learning" -> 85
      [] method = "fuzzy" -> 60
      [] OTHER -> 50

methodWeights(method) ==
    CASE method = "portal-specific" -> 100
      [] method = "direct" -> 90
      [] method = "semantic" -> 80
      [] method = "contextual" -> 70
      [] method = "learning" -> 85
      [] method = "fuzzy" -> 60
      [] OTHER -> 50

RECURSIVE ScoreIndex(_, _, _)
ScoreIndex(fieldScores, field, i) ==
    IF i > Len(fieldScores) THEN 0
    ELSE IF fieldScores[i].field = field THEN i
    ELSE ScoreIndex(fieldScores, field, i + 1)

RECURSIVE GroupScores(_, _, _)
(* the loop that fills the Map fieldScores, entries in insertion order *)
GroupScores(allResults, i, fieldScores) ==
    IF i > Len(allResults) THEN fieldScores
    ELSE LET result == allResults[i]
             at == ScoreIndex(fieldScores, result.field, 1)
             currentScore ==
                 IF at # 0 THEN fieldScores[at]
                 ELSE [field |-> result.field, total |-> 0, count |-> 0, methods |-> {},
                       maxConfidence |-> 0,
                       priority |-> IF result.priority # 0 THEN result.priority ELSE 5]
             weightedConfidence == (result.confidence * methodWeights(result.method)) \div 100
             updated ==
                 [currentScore EXCEPT
                     !.total = @ + weightedConfidence,
                     !.count = @ + 1,
                     !.methods = @ \cup {result.method},
                     !.maxConfidence = Max2(@, result.confidence)]
         IN GroupScores(allResults, i + 1,
                        IF at # 0 THEN [fieldScores EXCEPT ![at] = updated]
                        ELSE Append(fieldScores, updated))

confidenceThreshold == 500000

RECURSIVE BestMatchUnfloored(_, _, _)
(* BestMatch without the two tests against confidenceThreshold *)
BestMatchUnfloored(fieldScores, i, best) ==
    IF i > Len(fieldScores) THEN best
    ELSE IF fieldScores[i].total \div fieldScores[i].count > best.score
    THEN BestMatchUnfloored(fieldScores, i + 1,
                            [at |-> i, score |-> fieldScores[i].total \div fieldScores[i].count])
    ELSE BestMatchUnfloored(fieldScores, i + 1, best)

RECURSIVE BestMatchFirstQualified(_, _, _)
(* a loop that keeps the first entry that passes the two thresholds *)
BestMatchFirstQualified(fieldScores, i, best) ==
    IF i > Len(fieldScores) THEN best
    ELSE LET score == fieldScores[i]
             normalizedScore == score.total \div score.count
         IN IF /\ best.at = 0
               /\ normalizedScore > confidenceThreshold
               /\ score.maxConfidence > confidenceThreshold
            THEN BestMatchFirstQualified(fieldScores, i + 1,
                                         [at |-> i, score |-> normalizedScore])
            ELSE BestMatchFirstQualified(fieldScores, i + 1, best)

RECURSIVE BestMatch(_, _, _)
(* the loop over fieldScores.entries(); best is [at, score] *)
BestMatch(fieldScores, i, best) ==
    IF i > Len(fieldScores) THEN best
    ELSE LET score == fieldScores[i]
             normalizedScore == score.total \div score.count
         IN IF /\ normalizedScore > best.score
               /\ normalizedScore > confidenceThreshold
               /\ score.maxConfidence > confidenceThreshold
            THEN BestMatch(fieldScores, i + 1, [at |-> i, score |-> normalizedScore])
            ELSE BestMatch(fieldScores, i + 1, best)

NoResult == [category |-> "null", confidence |-> 0, methods |-> {}, priority |-> 0]

MaxLearningEntries == 1000

(* a store that moves the entry it overwrites to the end of the Map *)
storeDetectionLearningRefreshing(learned, element, fieldType, confidence) ==
    LET fingerprint == Fingerprint(element)
        entry == [fingerprint |-> fingerprint, fieldType |-> fieldType, confidence |-> confidence]
        set == Append(SelectSeq(learned, LAMBDA e : e.fingerprint # fingerprint), entry)
    IN IF Len(set) > MaxLearningEntries THEN Tail(set) ELSE set

storeDetectionLearning(learned, element, fieldType, confidence) ==
    LET fingerprint == Fingerprint(element)
        entry == [fingerprint |-> fingerprint, fieldType |-> fieldType, confidence |-> confidence]
        at == LearnedIndex(learned, fingerprint, 1)
        set == IF at # 0 THEN [learned EXCEPT ![at] = entry] ELSE Append(learned, entry)
    IN IF Len(set) > MaxLearningEntries THEN Tail(set) ELSE set

(* combineDetectionResults: [result, learned]; result is NoResult for null, *)
(* learned is learningData after the call to storeDetectionLearning         *)
combineDetectionResults(element, resultSets, learned) ==
    LET allResults == Flat(resultSets)
        fieldScores == GroupScores(allResults, 1, <<>>)
        best == BestMatch(fieldScores, 1, [at |-> 0, score |-> 0])
    IN IF Len(allResults) = 0 \/ best.at = 0
       THEN [result |-> NoResult, learned |-> learned]
       ELSE [result |-> [category |-> fieldScores[best.at].field,
                         confidence |-> best.score,
                         methods |-> fieldScores[best.at].methods,
                         priority |-> fieldScores[best.at].priority],
             learned |-> storeDetectionLearning(learned, element,
                                                fieldScores[best.at].field, best.score)]

(* the votes of the five strategies that read only the element and the site *)
StaticResultSets(element, config) ==
    << directAttributeMatching(element),
       fuzzyKeywordMatching(element),
       contextualAnalysis(element),
       semanticAnalysis(element),
       portalSpecificMatching(element, config) >>


(***************************************************************************)
(* The page.  page.nodes lists the elements of the document in document    *)
(* order, node 1 being <body>; parent is the index of the parent element   *)
(* (0 for <body>).  The form controls are the nodes whose tag is INPUT,    *)
(* SELECT or TEXTAREA.                                                     *)
(***************************************************************************)
FormTags == {"INPUT", "SELECT", "TEXTAREA"}

IsControl(node) == node.tagName \in FormTags

RECURSIVE Contains(_, _, _)
(* Node.contains: a is i or an ancestor of i *)
Contains(nodes, a, i) ==
    IF i = 0 THEN FALSE
    ELSE IF a = i THEN TRUE
    ELSE Contains(nodes, a, nodes[i].parent)

(* indexes of a set of nodes, in document order *)
RECURSIVE InOrder(_, _, _)
InOrder(keep, i, acc) ==
    IF i > Len(keep) THEN acc
    ELSE LET next == IF keep[i] THEN Append(acc, i) ELSE acc
         IN IF Len(next) >= 0 THEN InOrder(keep, i + 1, next) ELSE next

HasClass(className, token) ==
    \E i \in 1..(Len(className) - Len(token) + 1) :
        /\ SubSeq(className, i, i + Len(token) - 1) = token
        /\ (i = 1 \/ CharAt(className, i - 1) = " ")
        /\ (i + Len(token) - 1 = Len(className) \/ CharAt(className, i + Len(token)) = " ")

(* A selector is [tag, class, id, attrs, has]: "" matches any tag, class or *)
(* id; attrs are [attr, op, val] tests; has is empty or holds the selector  *)
(* of :has(...).                                                            *)
Sel(tag, class, id, attrs, has) ==
    [tag |-> tag, class |-> class, id |-> id, attrs |-> attrs, has |-> has]

Simple(tag, class, id, attrs) ==
    [tag |-> tag, class |-> class, id |-> id, attrs |-> attrs]

AttrSel(attr, op, val) == [attr |-> attr, op |-> op, val |-> val]

MatchesSimple(node, selector) ==
    /\ selector.tag = "" \/ selector.tag = node.tagName
    /\ selector.class = "" \/ HasClass(node.className, selector.class)
    /\ selector.id = "" \/ selector.id = node.id
    /\ \A k \in 1..Len(selector.attrs) :
          LET v == AttributeOf(node, selector.attrs[k].attr)
          IN IF selector.attrs[k].op = "=" THEN v = selector.attrs[k].val
             ELSE v # "" /\ includes(v, selector.attrs[k].val)

MatchesSelector(nodes, i, selector) ==
    /\ MatchesSimple(nodes[i], selector)
    /\ \A h \in 1..Len(selector.has) :
          \E d \in 1..Len(nodes) :
              d # i /\ Contains(nodes, i, d) /\ MatchesSimple(nodes[d], selector.has[h])

(* root.querySelectorAll(selector); root 0 is the document *)
querySelectorAll(nodes, root, selector) ==
    InOrder([i \in 1..Len(nodes) |->
                /\ root = 0 \/ (i # root /\ Contains(nodes, root, i))
                /\ MatchesSelector(nodes, i, selector)], 1, <<>>)

(* root.querySelectorAll('input, select, textarea') *)
formElements(nodes, root) ==
    InOrder([i \in 1..Len(nodes) |->
                /\ root = 0 \/ (i # root /\ Contains(nodes, root, i))
                /\ IsControl(nodes[i])], 1, <<>>)

containerSelectors ==
    << Sel("", "", "", <<AttrSel("class", "*=", "experience")>>, <<>>),
       Sel("", "", "", <<AttrSel("class", "*=", "job")>>, <<>>),
       Sel("", "", "", <<AttrSel("class", "*=", "work")>>, <<>>),
       Sel("", "", "", <<AttrSel("class", "*=", "employment")>>, <<>>),
       Sel("", "", "", <<AttrSel("class", "*=", "career")>>, <<>>),
       Sel("", "", "", <<AttrSel("id", "*=", "experience")>>, <<>>),
       Sel("", "", "", <<AttrSel("id", "*=", "job")>>, <<>>),
       Sel("", "", "", <<AttrSel("id", "*=", "work")>>, <<>>),
       Sel("", "experience-section", "", <<>>, <<>>),
       Sel("", "job-experience", "", <<>>, <<>>),
       Sel("", "work-history", "", <<>>, <<>>),
       Sel("", "employment-history", "", <<>>, <<>>),
       Sel("", "", "experience-section", <<>>, <<>>),
       Sel("", "", "job-experience", <<>>, <<>>),
       Sel("", "", "work-history", <<>>, <<>>),
       Sel("", "", "", <<AttrSel("data-testid", "*=", "experience")>>, <<>>),
       Sel("", "", "", <<AttrSel("data-cy", "*=", "experience")>>, <<>>),
       Sel("SECTION", "", "", <<>>,
           <<Simple("", "", "", <<AttrSel("class", "*=", "experience")>>)>>),
       Sel("DIV", "", "", <<>>,
           <<Simple("", "", "", <<AttrSel("class", "*=", "job-title")>>)>>) >>

cardSelectors ==
    << Sel("", "experience-card", "", <<>>, <<>>),
       Sel("", "job-card", "", <<>>, <<>>),
       Sel("", "work-entry", "", <<>>, <<>>),
       Sel("", "employment-entry", "", <<>>, <<>>),
       Sel("", "", "", <<AttrSel("class", "*=", "experience-entry")>>, <<>>),
       Sel("", "", "", <<AttrSel("class", "*=", "job-entry")>>, <<>>),
       Sel("", "", "", <<AttrSel("class", "*=", "experience-item")>>, <<>>),
       Sel("", "", "", <<AttrSel("class", "*=", "experience"),
                         AttrSel("class", "*=", "card")>>, <<>>),
       Sel("", "card", "", <<>>,
           <<Simple("", "", "", <<AttrSel("class", "*=", "job")>>)>>),
       Sel("", "entry", "", <<>>,
           <<Simple("", "", "", <<AttrSel("class", "*=", "experience")>>)>>),
       Sel("DIV", "", "", <<AttrSel("class", "*=", "card")>>,
           <<Simple("INPUT", "", "", <<AttrSel("name", "*=", "job")>>)>>),
       Sel("DIV", "", "", <<AttrSel("class", "*=", "entry")>>,
           <<Simple("INPUT", "", "", <<AttrSel("name", "*=", "company")>>)>>),
       Sel("FIELDSET", "", "", <<>>, <<>>),
       Sel("", "", "", <<AttrSel("role", "=", "group")>>, <<>>),
       Sel("", "form-group", "", <<>>,
           <<Simple("", "", "", <<AttrSel("name", "*=", "job")>>)>>),
       Sel("", "form-section", "", <<>>,
           <<Simple("", "", "", <<AttrSel("name", "*=", "experience")>>)>>) >>

(***************************************************************************)
(* JavaScript values of the profile document                               *)
(***************************************************************************)
Undefined == [t |-> "undefined", v |-> 0]
Null == [t |-> "null", v |-> 0]
Str(s) == [t |-> "string", v |-> s]
Bool(b) == [t |-> "boolean", v |-> b]
Arr(items) == [t |-> "array", v |-> items]
Obj(members) == [t |-> "object", v |-> members]

(* ToBoolean *)
Truthy(x) ==
    CASE x.t = "string" -> x.v # ""
      [] x.t = "boolean" -> x.v
      [] x.t \in {"undefined", "null"} -> FALSE
      [] OTHER -> TRUE

(* a || b *)
Or(a, b) == IF Truthy(a) THEN a ELSE b

RECURSIVE StringOf(_)
(* String(x), also the conversion inside a template literal *)
StringOf(x) ==
    CASE x.t = "string" -> x.v
      [] x.t = "boolean" -> IF x.v THEN "true" ELSE "false"
      [] x.t = "null" -> "null"
      [] x.t = "undefined" -> "undefined"
      [] x.t = "array" ->
            JoinWith([i \in 1..Len(x.v) |->
                        IF x.v[i].t \in {"null", "undefined"} THEN "" ELSE StringOf(x.v[i])], ",")
      [] OTHER -> "[object Object]"

ArrayIndexKeys == <<"0", "1", "2">>

(* value?.[key] *)
Member(value, key) ==
    CASE value.t = "object" -> IF key \in DOMAIN value.v THEN value.v[key] ELSE Undefined
      [] value.t = "array" ->
            IF \E i \in 1..Len(ArrayIndexKeys) : ArrayIndexKeys[i] = key /\ i <= Len(value.v)
            THEN value.v[CHOOSE i \in 1..Len(ArrayIndexKeys) : ArrayIndexKeys[i] = key]
            ELSE Undefined
      [] OTHER -> Undefined

RECURSIVE WalkPath(_, _, _)
WalkPath(value, keys, i) ==
    IF i > Len(keys) THEN value
    ELSE LET next == Member(value, keys[i])
         IN IF next.t = "undefined" THEN next ELSE WalkPath(next, keys, i + 1)

(* getValue / getNestedProfileValue: the path is given split at the dots *)
getNestedProfileValue(path, profileData) == WalkPath(profileData, path, 1)

(***************************************************************************)
(* masterInjection.js: value resolver                                      *)
(***************************************************************************)
MappedCategories ==
    { "firstName", "lastName", "fullName", "email", "phone", "phoneNumber",
      "addressLine1", "addressLine2", "address", "city", "state", "postalCode",
      "zipCode", "country", "currentLocation", "willingToRelocate", "jobTitle", "currentTitle",
      "company", "currentCompany", "totalExperience", "experience", "currentSalary", "expectedSalary",
      "salary", "noticePeriod", "linkedinUrl", "linkedin", "githubUrl", "github",
      "portfolioUrl", "portfolio", "website", "skills", "education", "degree",
      "school", "university", "coverLetter", "summary", "objective" }

(* fieldMappings: the candidate paths of a category, each path split at the dots *)
fieldMappings ==
    [ firstName |-> << <<"personal", "firstName">>, <<"firstName">> >>,
      lastName |-> << <<"personal", "lastName">>, <<"lastName">> >>,
      fullName |-> << <<"personal", "fullName">>, <<"fullName">> >>,
      email |-> << <<"personal", "email">>, <<"email">> >>,
      phone |-> << <<"personal", "phone", "full">>, <<"personal", "phone", "number">>, <<"phone">> >>,
      phoneNumber |-> << <<"personal", "phone", "full">>, <<"personal", "phone", "number">>, <<"phoneNumber">> >>,
      addressLine1 |-> << <<"personal", "address", "line1">>, <<"addressLine1">> >>,
      addressLine2 |-> << <<"personal", "address", "line2">>, <<"addressLine2">> >>,
      address |-> << <<"personal", "address", "line1">>, <<"address">> >>,
      city |-> << <<"personal", "address", "city">>, <<"city">> >>,
      state |-> << <<"personal", "address", "state">>, <<"state">> >>,
      postalCode |-> << <<"personal", "address", "postalCode">>, <<"postalCode">> >>,
      zipCode |-> << <<"personal", "address", "postalCode">>, <<"zipCode">> >>,
      country |-> << <<"personal", "address", "country">>, <<"country">> >>,
      currentLocation |-> << <<"personal", "currentLocation">>, <<"currentLocation">> >>,
      willingToRelocate |-> << <<"personal", "willingToRelocate">>, <<"willingToRelocate">> >>,
      jobTitle |-> << <<"professional", "experiences", "0", "title">>, <<"professional", "currentTitle">>, <<"jobTitle">> >>,
      currentTitle |-> << <<"professional", "experiences", "0", "title">>, <<"professional", "currentTitle">>, <<"currentTitle">> >>,
      company |-> << <<"professional", "experiences", "0", "company">>, <<"professional", "currentCompany">>, <<"company">> >>,
      currentCompany |-> << <<"professional", "experiences", "0", "company">>, <<"professional", "currentCompany">>, <<"currentCompany">> >>,
      totalExperience |-> << <<"professional", "totalExperience">>, <<"totalExperience">> >>,
      experience |-> << <<"professional", "totalExperience">>, <<"experience">> >>,
      currentSalary |-> << <<"professional", "currentSalary">>, <<"currentSalary">> >>,
      expectedSalary |-> << <<"professional", "expectedSalary">>, <<"expectedSalary">> >>,
      salary |-> << <<"professional", "expectedSalary">>, <<"professional", "currentSalary">>, <<"salary">> >>,
      noticePeriod |-> << <<"professional", "noticePeriod">>, <<"noticePeriod">> >>,
      linkedinUrl |-> << <<"professional", "linkedinUrl">>, <<"linkedinUrl">> >>,
      linkedin |-> << <<"professional", "linkedinUrl">>, <<"linkedin">> >>,
      githubUrl |-> << <<"professional", "githubUrl">>, <<"githubUrl">> >>,
      github |-> << <<"professional", "githubUrl">>, <<"github">> >>,
      portfolioUrl |-> << <<"professional", "portfolioUrl">>, <<"portfolioUrl">> >>,
      portfolio |-> << <<"professional", "portfolioUrl">>, <<"portfolio">> >>,
      website |-> << <<"professional", "portfolioUrl">>, <<"professional", "websiteUrl">>, <<"website">> >>,
      skills |-> << <<"professional", "skills">>, <<"skills">> >>,
      education |-> << <<"education", "degree">>, <<"education", "school">>, <<"education">> >>,
      degree |-> << <<"education", "degree">>, <<"degree">> >>,
      school |-> << <<"education", "school">>, <<"education", "university">>, <<"school">> >>,
      university |-> << <<"education", "university">>, <<"education", "school">>, <<"university">> >>,
      coverLetter |-> << <<"professional", "coverLetter">>, <<"coverLetter">> >>,
      summary |-> << <<"professional", "summary">>, <<"summary">> >>,
      objective |-> << <<"professional", "objective">>, <<"objective">> >> ]

RECURSIVE FirstUsable(_, _, _)
(* getValueFromKeywords: first path whose value is not undefined, null or '' *)
FirstUsable(keywords, profileData, i) ==
    IF i > Len(keywords) THEN Null
    ELSE LET value == getNestedProfileValue(keywords[i], profileData)
         IN IF value.t \notin {"undefined", "null"} /\ ~(value.t = "string" /\ value.v = "")
            THEN value
            ELSE FirstUsable(keywords, profileData, i + 1)

getValueFromKeywords(keywords, profileData) == FirstUsable(keywords, profileData, 1)

(* getSurroundingText: label, placeholder and the text of the parent element *)
getSurroundingText(element) ==
    trim(findAssociatedLabel(element) \o " " \o element.placeholder
         \o " " \o trim(element.parentText))

IncludesAny(text, words) == \E w \in words : includes(text, w)

analyzeElementForNameType(element) ==
    LET attributes == toLowerCase(JoinWith(<< element.name, element.id, element.placeholder,
                                              element.className >>, " "))
        labels == toLowerCase(getSurroundingText(element))
        allText == attributes \o " " \o labels
    IN [isActuallyFirstName |->
            /\ IncludesAny(allText, {"first", "fname", "given", "forename"})
            /\ ~IncludesAny(allText, {"last", "surname", "family"}),
        isActuallyLastName |->
            /\ IncludesAny(allText, {"last", "lname", "surname", "family"})
            /\ ~IncludesAny(allText, {"first", "given", "forename"})]

(* validateAndCorrectFieldMapping: Null means "continue with standard mapping" *)
validateAndCorrectFieldMapping(category, profileData, currentElement) ==
    IF category = "fullName"
    THEN LET fieldContext == analyzeElementForNameType(currentElement)
             firstName == Or(getNestedProfileValue(<<"personal", "firstName">>, profileData),
                             getNestedProfileValue(<<"firstName">>, profileData))
             lastName == Or(getNestedProfileValue(<<"personal", "lastName">>, profileData),
                            getNestedProfileValue(<<"lastName">>, profileData))
         IN IF fieldContext.isActuallyFirstName /\ Truthy(firstName) THEN firstName
            ELSE IF fieldContext.isActuallyLastName /\ Truthy(lastName) THEN lastName
            ELSE Null
    ELSE Null

(* getFullNameValue (first revision; no caller) *)
getFullNameValue(profileData) ==
    LET existingFullName == Or(getNestedProfileValue(<<"personal", "fullName">>, profileData),
                               getNestedProfileValue(<<"fullName">>, profileData))
        firstName == Or(Or(getNestedProfileValue(<<"personal", "firstName">>, profileData),
                           getNestedProfileValue(<<"firstName">>, profileData)), Str(""))
        lastName == Or(Or(getNestedProfileValue(<<"personal", "lastName">>, profileData),
                          getNestedProfileValue(<<"lastName">>, profileData)), Str(""))
    IN IF Truthy(existingFullName) THEN existingFullName
       ELSE Str(trim(StringOf(firstName) \o " " \o StringOf(lastName)))

(* getValueForField, first revision of masterInjection.js *)
getValueForField1(category, profileData, currentElement) ==
    IF ~Truthy(profileData) THEN Null
    ELSE LET correctedValue ==
                 IF category # "fullName"
                 THEN validateAndCorrectFieldMapping(category, profileData, currentElement)
                 ELSE Null
             keywordsForCategory ==
                 IF category \in MappedCategories THEN fieldMappings[category] ELSE <<>>
             categoryValue ==
                 IF category = "fullName"
                 THEN LET firstName == getValueFromKeywords(fieldMappings["firstName"], profileData)
                          lastName == getValueFromKeywords(fieldMappings["lastName"], profileData)
                      IN Str(trim(StringOf(firstName) \o " " \o StringOf(lastName)))
                 ELSE IF category = "skills"
                 THEN LET skillsValue == getValueFromKeywords(keywordsForCategory, profileData)
                      IN IF Truthy(skillsValue)
                         THEN (IF skillsValue.t = "array"
                               THEN Str(JoinWith([i \in 1..Len(skillsValue.v) |->
                                                    StringOf(skillsValue.v[i])], ", "))
                               ELSE skillsValue)
                         ELSE Null
                 ELSE getValueFromKeywords(keywordsForCategory, profileData)
         IN IF correctedValue.t # "null" THEN correctedValue
            ELSE Or(categoryValue, Null)

RECURSIVE FirstTruthy(_, _, _)
(* getValue(p1) || getValue(p2) || ... *)
FirstTruthy(paths, profileData, i) ==
    LET value == getNestedProfileValue(paths[i], profileData)
    IN IF i = Len(paths) \/ Truthy(value) THEN value
       ELSE FirstTruthy(paths, profileData, i + 1)

(* getValueForField, second revision of masterInjection.js *)
getValueForField2(category, profileData) ==
    IF ~Truthy(profileData) THEN Null
    ELSE LET mapped ==
                 IF category = "fullName"
                 THEN Str(trim(
                        StringOf(Or(FirstTruthy(fieldMappings["firstName"], profileData, 1), Str("")))
                        \o " " \o
                        StringOf(Or(FirstTruthy(fieldMappings["lastName"], profileData, 1), Str("")))))
                 ELSE IF category = "skills"
                 THEN LET skills == getNestedProfileValue(<<"professional", "skills">>, profileData)
                      IN IF Truthy(skills)
                         THEN (IF skills.t = "array"
                               THEN Str(JoinWith([i \in 1..Len(skills.v) |->
                                                    StringOf(skills.v[i])], ", "))
                               ELSE skills)
                         ELSE getNestedProfileValue(<<"skills">>, profileData)
                 ELSE IF category \in MappedCategories
                 THEN FirstTruthy(fieldMappings[category], profileData, 1)
                 ELSE Undefined
         IN Or(mapped, Null)

(* getValueForField preferring the stored fullName, as getFullNameValue does *)
getValueForFieldStored(revision, category, profileData, currentElement) ==
    IF category = "fullName" /\ Truthy(profileData) THEN getFullNameValue(profileData)
    ELSE IF revision = 1 THEN getValueForField1(category, profileData, currentElement)
    ELSE getValueForField2(category, profileData)

(* revision is the revision of masterInjection.js that is loaded *)
getValueForField(revision, category, profileData, currentElement) ==
    IF revision = 1 THEN getValueForField1(category, profileData, currentElement)
    ELSE getValueForField2(category, profileData)

(***************************************************************************)
(* Pages                                                                   *)
(***************************************************************************)
Blank ==
    [tagName |-> "DIV", type |-> "", name |-> "", id |-> "", className |-> "",
     placeholder |-> "", ariaLabel |-> "", dataTestid |-> "", dataCy |-> "", role |-> "",
     title |-> "", dataAutomationId |-> "", readOnly |-> FALSE, disabled |-> FALSE,
     hidden |-> FALSE, labelText |-> "", nearbyText |-> "", parentText |-> "",
     parent |-> 1, options |-> <<>>, reactFiber |-> FALSE]

Body == [Blank EXCEPT !.tagName = "BODY", !.parent = 0]

Input(type, name) == [Blank EXCEPT !.tagName = "INPUT", !.type = type, !.name = name]

Option(value, text) == [value |-> value, text |-> text]

CountryOptions == << Option("", "Select"), Option("us", "United States"), Option("in", "India") >>

(* a contact form on a site that is not a job site *)
ContactPage ==
    [location |-> [hostname |-> "www.example.com", pathname |-> "/contact"],
     nodes |-> << Body,
                  [Input("text", "first_name") EXCEPT !.id = "fn", !.labelText = "First Name",
                                                      !.parentText = "First Name"],
                  Input("text", "fullname"),
                  Input("email", "email"),
                  Input("text", "user_password"),
                  Input("text", "q") >>]

(* an application form of a Workday tenant *)
WorkdayPage ==
    [location |-> [hostname |-> "acme.workday.com", pathname |-> "/en-US/apply"],
     nodes |-> << Body,
                  [Input("text", "") EXCEPT !.id = "input-4",
                                            !.dataAutomationId = "legalNameSection_firstName"],
                  [Input("text", "lastName") EXCEPT !.reactFiber = TRUE],
                  [Blank EXCEPT !.tagName = "SELECT", !.type = "select-one",
                                !.name = "country", !.options = CountryOptions],
                  [Input("file", "portfolio") EXCEPT !.id = "upload"] >>]

(* an application form with two experience cards on a job site *)
CareersPage ==
    [location |-> [hostname |-> "careers.example.org", pathname |-> "/apply"],
     nodes |-> << Body,
                  [Blank EXCEPT !.tagName = "SECTION", !.className = "experience-section"],
                  [Blank EXCEPT !.className = "experience-card", !.parent = 2],
                  [Input("text", "job_title_1") EXCEPT !.parent = 3],
                  [Input("text", "company_1") EXCEPT !.parent = 3],
                  [Input("text", "city_1") EXCEPT !.parent = 3, !.readOnly = TRUE],
                  [Input("month", "start_1") EXCEPT !.parent = 3],
                  [Blank EXCEPT !.className = "experience-card", !.parent = 2],
                  [Input("text", "job_title_2") EXCEPT !.parent = 8],
                  [Input("text", "company_2") EXCEPT !.parent = 8] >>]

(* a page without form controls *)
EmptyPage ==
    [location |-> [hostname |-> "jobs.example.net", pathname |-> "/"],
     nodes |-> << Body, [Blank EXCEPT !.className = "banner"] >>]

(* a sign-up form whose controls carry a placeholder and nothing else *)
SignupPage ==
    [location |-> [hostname |-> "app.example.io", pathname |-> "/signup"],
     nodes |-> << Body,
                  [Input("text", "") EXCEPT !.placeholder = "First name"],
                  [Input("text", "") EXCEPT !.placeholder = "Last name"],
                  Input("text", ""),
                  [Input("tel", "") EXCEPT !.placeholder = "Phone"] >>]

Pages == << ContactPage, WorkdayPage, CareersPage, EmptyPage, SignupPage >>

(***************************************************************************)
(* Profiles                                                                *)
(***************************************************************************)
Experience(jobTitle, company) == Obj([jobTitle |-> Str(jobTitle), company |-> Str(company)])

(* the shape the options page stores *)
StoredProfile ==
    Obj([personal |-> Obj([firstName |-> Str("Jane"), lastName |-> Str("Doe"),
                           email |-> Str("jane@example.com"), country |-> Str("India")]),
         professional |-> Obj([experiences |-> Arr(<< Experience("Engineer", "Acme"),
                                                      Experience("Intern", "Globex") >>),
                               portfolioUrl |-> Str("https://jane.example")])])

(* experience entries that carry the title key the resolver reads *)
TitledProfile ==
    Obj([personal |-> Obj([firstName |-> Str("Ann"), country |-> Str("Canada")]),
         professional |-> Obj([experiences |->
             Arr(<< Obj([title |-> Str("Manager"), company |-> Str("Initech")]),
                    Obj([title |-> Str("Clerk"), company |-> Str("Hooli")]) >>)])])

EmptyProfile == Obj(<<>>)

(* request.profileData of a fillForm message; Undefined when the message has none *)
RequestProfiles == << Undefined, EmptyProfile, StoredProfile, TitledProfile >>

(***************************************************************************)
(* masterDetector.js: portal identification and the detection pass         *)
(***************************************************************************)
RECURSIVE FirstPortal(_, _)
FirstPortal(hostname, i) ==
    IF i > Len(PortalKeys) THEN "null"
    ELSE IF includes(hostname, PORTAL_CONFIGS[PortalKeys[i]].domain) THEN PortalKeys[i]
    ELSE FirstPortal(hostname, i + 1)

jobKeywords == {"job", "career", "apply", "application", "hiring", "recruit"}

identifyJobPortal(location) ==
    LET hostname == toLowerCase(location.hostname)
        pathname == toLowerCase(location.pathname)
        known == FirstPortal(hostname, 1)
    IN IF known # "null" THEN known
       ELSE IF \E keyword \in jobKeywords :
                  includes(hostname, keyword) \/ includes(pathname, keyword)
       THEN "generic"
       ELSE "null"

PortalName(config) ==
    CASE config = "null" -> "unknown"
      [] config = "generic" -> "Generic Job Portal"
      [] OTHER -> PORTAL_CONFIGS[config].name

excludePatterns(config) ==
    IF config = "generic" THEN <<"hidden", "password", "csrf">>
    ELSE PORTAL_CONFIGS[config].excludePatterns

commonExclusions == <<"password", "captcha", "csrf", "token", "submit", "reset">>

isElementExcluded(element, config) ==
    IF element.type = "hidden" \/ element.hidden THEN TRUE
    ELSE IF element.disabled \/ element.readOnly THEN TRUE
    ELSE IF config # "null"
    THEN LET elementText == toLowerCase(element.name \o element.id \o element.className)
             patterns == excludePatterns(config)
         IN \E i \in 1..Len(patterns) : includes(elementText, patterns[i])
    ELSE LET elementText == toLowerCase(element.name \o element.id \o element.className
                                        \o element.type)
         IN \E i \in 1..Len(commonExclusions) : includes(elementText, commonExclusions[i])


(* what identifyJobPortal returns on each page *)
PageConfig == [p \in 1..Len(Pages) |-> identifyJobPortal(Pages[p].location)] \o <<>>

(* StaticResultSets of every control of every page, evaluated once *)
StaticVotes ==
    [p \in 1..Len(Pages) |->
        [i \in 1..Len(Pages[p].nodes) |->
            IF IsControl(Pages[p].nodes[i])
            THEN StaticResultSets(Pages[p].nodes[i], PageConfig[p])
            ELSE <<>>] \o <<>>] \o <<>>

ResultSetsOf(element, config) ==
    LET known == {pi \in UNION {{<<p, i>> : i \in 1..Len(Pages[p].nodes)} : p \in 1..Len(Pages)} :
                     /\ PageConfig[pi[1]] = config
                     /\ Pages[pi[1]].nodes[pi[2]] = element}
    IN IF known = {} THEN StaticResultSets(element, config)
       ELSE LET pi == CHOOSE pi \in known : TRUE IN StaticVotes[pi[1]][pi[2]]

detectFieldAdvanced(element, config, learned) ==
    LET results == ResultSetsOf(element, config)
                   \o << learningBasedDetection(element, learned) >>
    IN combineDetectionResults(element, results, learned)

OrdinaryField(control, result) ==
    [control |-> control, category |-> result.category, confidence |-> result.confidence,
     methods |-> result.methods, priority |-> result.priority,
     isExperienceField |-> FALSE, cardIndex |-> 0, experienceFieldType |-> ""]

UnknownField(control) ==
    [control |-> control, category |-> "unknown", confidence |-> 0,
     methods |-> {"none"}, priority |-> 0,
     isExperienceField |-> FALSE, cardIndex |-> 0, experienceFieldType |-> ""]

(* the body of the loop of detectFormFields once the control has been analysed: *)
(* detection is what detectFieldAdvanced returned, vote what                    *)
(* learningBasedDetection returned inside it                                    *)
RecordField(acc, index, detection, vote) ==
    IF detection.result.category # "null"
    THEN [fields |-> Append(acc.fields, OrdinaryField(index, detection.result)),
          learned |-> detection.learned,
          votes |-> Append(acc.votes, vote)]
    ELSE [fields |-> Append(acc.fields, UnknownField(index)),
          learned |-> acc.learned,
          votes |-> Append(acc.votes, vote)]

(* one turn of the loop of detectFormFields *)
DetectElement(element, config, index, acc) ==
    IF ~IsControl(element) \/ isElementExcluded(element, config)
    THEN [acc EXCEPT !.votes = Append(@, <<>>)]
    ELSE RecordField(acc, index, detectFieldAdvanced(element, config, acc.learned),
                     learningBasedDetection(element, acc.learned))

RECURSIVE DetectEach(_, _, _, _)
(* the loop of detectFormFields over formElements: acc is [fields, learned, votes], *)
(* votes[i] being what learningBasedDetection returned for node i                  *)
DetectEach(nodes, config, index, acc) ==
    IF index > Len(nodes) THEN acc
    ELSE DetectEach(nodes, config, index + 1,
                    DetectElement(nodes[index], config, index, acc))

(* the comparator of fields.sort: a goes after b *)
SortsAfter(a, b) ==
    IF a.confidence # b.confidence THEN b.confidence > a.confidence
    ELSE b.priority > a.priority

RECURSIVE InsertSorted(_, _)
InsertSorted(sorted, field) ==
    IF Len(sorted) = 0 THEN <<field>>
    ELSE IF SortsAfter(sorted[Len(sorted)], field)
    THEN Append(InsertSorted(SubSeq(sorted, 1, Len(sorted) - 1), field), sorted[Len(sorted)])
    ELSE Append(sorted, field)

RECURSIVE SortFields(_, _, _)
(* Array.prototype.sort is stable *)
SortFields(fields, i, sorted) ==
    IF i > Len(fields) THEN sorted
    ELSE SortFields(fields, i + 1, InsertSorted(sorted, fields[i]))

(***************************************************************************)
(* masterDetector.js: experience-card detection                            *)
(***************************************************************************)
experienceKeywords ==
    {"job", "company", "employer", "experience", "work", "position", "role", "title",
     "start", "end", "current", "description", "location", "employment", "career",
     "occupation"}

isExperienceRelatedField(field) ==
    LET fieldText == toLowerCase(JoinWith(<< field.name, field.id, field.placeholder,
                                             field.className >>, " "))
    IN \E keyword \in experienceKeywords : includes(fieldText, keyword)

(* the members of a sequence of node indexes that are experience-related *)
ExperienceFieldsOf(nodes, fields) ==
    SelectSeq(fields, LAMBDA f : isExperienceRelatedField(nodes[f]))

RECURSIVE Ancestors(_, _, _)
(* parentElement, its parentElement, ...: at most levels of them *)
Ancestors(nodes, i, levels) ==
    IF levels = 0 \/ nodes[i].parent = 0 THEN <<>>
    ELSE <<nodes[i].parent>> \o Ancestors(nodes, nodes[i].parent, levels - 1)

CountIn(nodes, parent, fields) ==
    Cardinality({k \in 1..Len(fields) : Contains(nodes, parent, fields[k])})

(* if (fieldsInParent > maxFields) { maxFields = fieldsInParent; bestParent = parent } *)
Better(best, parent, count) ==
    IF count > best.maxFields THEN [parent |-> parent, maxFields |-> count] ELSE best

RECURSIVE BestParent(_, _, _, _, _)
(* best is [parent, maxFields] *)
BestParent(nodes, experienceFields, candidates, k, best) ==
    IF k > Len(candidates) THEN best.parent
    ELSE BestParent(nodes, experienceFields, candidates, k + 1,
                    Better(best, candidates[k],
                           CountIn(nodes, candidates[k], experienceFields)))

(* detectExperienceCardsByFieldPatterns from the experience fields of the document *)
BestParentOf(nodes, experienceFields) ==
    IF Len(experienceFields) < 3 THEN 0
    ELSE BestParent(nodes, experienceFields,
                    Flat([k \in 1..Len(experienceFields) |->
                             Ancestors(nodes, experienceFields[k], 5)]),
                    1, [parent |-> 0, maxFields |-> 0])

(* detectExperienceCardsByFieldPatterns: a node index, 0 for null *)
detectExperienceCardsByFieldPatterns(nodes) ==
    BestParentOf(nodes, ExperienceFieldsOf(nodes, formElements(nodes, 0)))

RECURSIVE DigitRun(_, _)
(* end of the longest run of digits that starts at p, p - 1 when there is none *)
DigitRun(s, p) ==
    IF p <= Len(s) /\ CharAt(s, p) \in DigitSet THEN DigitRun(s, p + 1) ELSE p - 1

RECURSIVE NumberMatch(_, _)
(* fieldInfo.match(/_(\d+)|(\d+)_|(\d+)$/): the captured number, "" for no match *)
NumberMatch(s, p) ==
    IF p > Len(s) THEN ""
    ELSE IF CharAt(s, p) = "_" /\ DigitRun(s, p + 1) >= p + 1
    THEN SubSeq(s, p + 1, DigitRun(s, p + 1))
    ELSE IF DigitRun(s, p) >= p
            /\ (DigitRun(s, p) = Len(s) \/ CharAt(s, DigitRun(s, p) + 1) = "_")
    THEN SubSeq(s, p, DigitRun(s, p))
    ELSE NumberMatch(s, p + 1)

RECURSIVE GroupIndex(_, _, _)
GroupIndex(groups, number, k) ==
    IF k > Len(groups) THEN 0
    ELSE IF groups[k].number = number THEN k
    ELSE GroupIndex(groups, number, k + 1)

(* numberedGroups.get(number).push(field), the group being made when it is new *)
AddAt(groups, number, field, at) ==
    IF at = 0 THEN Append(groups, [number |-> number, fields |-> <<field>>])
    ELSE [groups EXCEPT ![at].fields = Append(@, field)]

AddToGroup(groups, number, field) ==
    IF number = "" THEN groups ELSE AddAt(groups, number, field, GroupIndex(groups, number, 1))

RECURSIVE NumberedGroups(_, _, _, _)
(* the Map numberedGroups, entries in insertion order *)
NumberedGroups(nodes, experienceFields, k, groups) ==
    IF k > Len(experienceFields) THEN groups
    ELSE NumberedGroups(nodes, experienceFields, k + 1,
                        AddToGroup(groups,
                                   NumberMatch(nodes[experienceFields[k]].name
                                               \o nodes[experienceFields[k]].id
                                               \o nodes[experienceFields[k]].className, 1),
                                   experienceFields[k]))

RECURSIVE CommonParent(_, _, _, _)
CommonParent(nodes, fields, k, commonParent) ==
    IF k > Len(fields) THEN commonParent
    ELSE IF commonParent # 0 /\ ~Contains(nodes, commonParent, fields[k])
    THEN CommonParent(nodes, fields, k, nodes[commonParent].parent)
    ELSE CommonParent(nodes, fields, k + 1, commonParent)

(* the common parent of every numbered group of two fields or more, 0 for the others *)
GroupParents(nodes, groups) ==
    [k \in 1..Len(groups) |->
        IF Len(groups[k].fields) >= 2
        THEN CommonParent(nodes, groups[k].fields, 1, nodes[groups[k].fields[1]].parent)
        ELSE 0]

(* return cards.length > 0 ? cards : [parentContainer] *)
CardsOr(cards, parentContainer) == IF Len(cards) > 0 THEN cards ELSE <<parentContainer>>

(* detectCardsByFieldGrouping from the experience fields of the container *)
GroupedCards(nodes, parentContainer, experienceFields) ==
    IF Len(experienceFields) < 3 THEN <<>>
    ELSE CardsOr(SelectSeq(GroupParents(nodes, NumberedGroups(nodes, experienceFields,
                                                              1, <<>>)),
                           LAMBDA parent : parent # 0),
                 parentContainer)

(* detectCardsByFieldGrouping: sequence of node indexes *)
detectCardsByFieldGrouping(nodes, parentContainer) ==
    GroupedCards(nodes, parentContainer,
                 ExperienceFieldsOf(nodes, formElements(nodes, parentContainer)))

(* pattern is found in textToCheck, alone or followed by _ or - *)
HasPattern(textToCheck, pattern) ==
    \/ includes(textToCheck, pattern)
    \/ includes(textToCheck, pattern \o "_")
    \/ includes(textToCheck, pattern \o "-")

AnyPattern(textToCheck, patterns) ==
    \E pattern \in patterns : HasPattern(textToCheck, toLowerCase(pattern))

matchesPatterns(elementInfo, patterns) ==
    AnyPattern(toLowerCase(JoinWith(<< elementInfo.name, elementInfo.id,
                                       elementInfo.placeholder, elementInfo.className >>,
                                    " ")),
               patterns)

(* the pattern lists of detectExperienceFieldType *)
experiencePatterns ==
    [jobTitle |-> {"jobtitle", "job_title", "job-title", "title", "position", "role",
                   "designation", "occupation"},
     company |-> {"company", "employer", "organization", "org", "company_name",
                  "employer_name", "workplace", "firm", "corporation"},
     jobLocation |-> {"location", "city", "place", "address", "where", "joblocation",
                      "job_location", "work_location", "worklocation"},
     startDate |-> {"startdate", "start_date", "start-date", "from", "begin", "joining",
                    "commenced", "employment_start"},
     startWords |-> {"start", "from", "begin", "joining"},
     endWords |-> {"end", "to", "until", "finish"},
     endDate |-> {"enddate", "end_date", "end-date", "to", "until", "finish", "leaving",
                  "terminated", "employment_end"},
     currentlyWorking |-> {"current", "currently", "present", "ongoing", "still", "working",
                           "employed", "active"},
     jobDescription |-> {"description", "desc", "details", "responsibilities", "duties",
                         "summary", "experience", "achievements", "job_description"}]

(* the elementInfo object of detectExperienceFieldType *)
ElementInfo(element) ==
    [name |-> toLowerCase(element.name), id |-> toLowerCase(element.id),
     placeholder |-> toLowerCase(element.placeholder),
     className |-> toLowerCase(element.className),
     type |-> IF element.type = "" THEN "text" ELSE element.type]

(* the chain of tests of detectExperienceFieldType, found[l] being what *)
(* matchesPatterns answers for the pattern list l                       *)
SlotOf(element, infoType, found) ==
    IF found.jobTitle THEN "jobTitle"
    ELSE IF found.company THEN "company"
    ELSE IF found.jobLocation THEN "jobLocation"
    ELSE IF found.startDate \/ infoType \in {"date", "month"}
    THEN (IF found.startWords THEN "startDate"
          ELSE IF found.endWords THEN "endDate"
          ELSE "startDate")
    ELSE IF found.endDate THEN "endDate"
    ELSE IF element.type = "checkbox" /\ found.currentlyWorking THEN "currentlyWorking"
    ELSE IF element.type = "textarea" \/ found.jobDescription THEN "jobDescription"
    ELSE "null"

PatternsFound(elementInfo) ==
    [l \in DOMAIN experiencePatterns |-> matchesPatterns(elementInfo, experiencePatterns[l])]

TypeFromInfo(element, elementInfo) ==
    SlotOf(element, elementInfo.type, PatternsFound(elementInfo))

(* detectExperienceFieldType: the slot of a control, "null" when it has none *)
detectExperienceFieldType(element) == TypeFromInfo(element, ElementInfo(element))

(* the keys of the fields object of a card, in the order they are declared *)
ExperienceSlots ==
    << "jobTitle", "company", "jobLocation", "startDate", "endDate", "currentlyWorking",
       "jobDescription" >>

RECURSIVE FirstOfType(_, _, _, _)
FirstOfType(nodes, elements, fieldType, k) ==
    IF k > Len(elements) THEN 0
    ELSE IF detectExperienceFieldType(nodes[elements[k]]) = fieldType THEN elements[k]
    ELSE FirstOfType(nodes, elements, fieldType, k + 1)

(* detectFieldsWithinCard: for each slot the first control of that type, 0 for null *)
detectFieldsWithinCard(nodes, cardElement) ==
    LET elements == formElements(nodes, cardElement)
    IN [s \in 1..Len(ExperienceSlots) |-> FirstOfType(nodes, elements, ExperienceSlots[s], 1)]

RECURSIVE FirstCards(_, _, _)
(* the cards of the first card selector that finds any *)
FirstCards(nodes, parentContainer, s) ==
    IF s > Len(cardSelectors) THEN <<>>
    ELSE LET foundCards == querySelectorAll(nodes, parentContainer, cardSelectors[s])
         IN IF Len(foundCards) > 0 THEN foundCards
            ELSE FirstCards(nodes, parentContainer, s + 1)

(* the cardData object of detectIndividualExperienceCards *)
CardWith(cardElement, cardIndex, fields, fieldCount) ==
    [cardIndex |-> cardIndex, container |-> cardElement, fields |-> fields,
     fieldCount |-> fieldCount, detectionConfidence |-> Min2(fieldCount * 15, 100)]

CardOf(cardElement, cardIndex, fields) ==
    CardWith(cardElement, cardIndex, fields,
             Cardinality({s \in 1..Len(fields) : fields[s] # 0}))

CardData(nodes, cardElement, cardIndex) ==
    CardOf(cardElement, cardIndex, detectFieldsWithinCard(nodes, cardElement))

(* the cards kept: those with two fields or more *)
CardsFrom(nodes, cardElements) ==
    SelectSeq([i \in 1..Len(cardElements) |-> CardData(nodes, cardElements[i], i)],
              LAMBDA card : card.fieldCount >= 2)

(* if (cardElements.length === 0) cardElements = detectCardsByFieldGrouping(...) *)
SelectorOrGrouping(nodes, parentContainer, bySelector) ==
    IF Len(bySelector) = 0 THEN detectCardsByFieldGrouping(nodes, parentContainer)
    ELSE bySelector

detectIndividualExperienceCards(nodes, parentContainer) ==
    CardsFrom(nodes, SelectorOrGrouping(nodes, parentContainer,
                                        FirstCards(nodes, parentContainer, 1)))

RECURSIVE FirstContainer(_, _, _, _)
(* the first element, selector by selector, that holds three experience fields *)
FirstContainer(nodes, s, containers, k) ==
    IF s > Len(containerSelectors) THEN 0
    ELSE IF k > Len(containers)
    THEN (IF s = Len(containerSelectors) THEN 0
          ELSE FirstContainer(nodes, s + 1,
                              querySelectorAll(nodes, 0, containerSelectors[s + 1]), 1))
    ELSE IF Len(ExperienceFieldsOf(nodes, formElements(nodes, containers[k]))) >= 3
    THEN containers[k]
    ELSE FirstContainer(nodes, s, containers, k + 1)

(* the object detectExperienceCards returns *)
ExperienceData(byContainer, parentContainer, cards) ==
    IF parentContainer = 0
    THEN [parentContainer |-> 0, cards |-> <<>>, totalCards |-> 0,
          detectionMethod |-> "none"]
    ELSE [parentContainer |-> parentContainer, cards |-> cards, totalCards |-> Len(cards),
          detectionMethod |-> IF byContainer # 0 THEN "container" ELSE "field-pattern"]

CardsWithin(nodes, byContainer, parentContainer) ==
    ExperienceData(byContainer, parentContainer,
                   detectIndividualExperienceCards(nodes, parentContainer))

(* if (!parentContainer) parentContainer = detectExperienceCardsByFieldPatterns() *)
ContainerOrPattern(nodes, byContainer) ==
    CardsWithin(nodes, byContainer,
                IF byContainer # 0 THEN byContainer
                ELSE detectExperienceCardsByFieldPatterns(nodes))

(* detectExperienceCards: [parentContainer, cards, totalCards, detectionMethod] *)
detectExperienceCards(nodes) ==
    ContainerOrPattern(nodes, FirstContainer(nodes, 1,
                                             querySelectorAll(nodes, 0, containerSelectors[1]),
                                             1))

ExperienceField(card, slot) ==
    [control |-> card.fields[slot], category |-> "experience_" \o ExperienceSlots[slot],
     confidence |-> (card.detectionConfidence * Micro) \div 100,
     methods |-> {"experience-card-detection"}, priority |-> 8,
     isExperienceField |-> TRUE, cardIndex |-> card.cardIndex,
     experienceFieldType |-> ExperienceSlots[slot]]

(* the records detectFormFields pushes for one card, slot by slot *)
CardEntries(card) ==
    LET at == SelectSeq([s \in 1..Len(ExperienceSlots) |-> s],
                        LAMBDA s : card.fields[s] # 0)
    IN [k \in 1..Len(at) |-> ExperienceField(card, at[k])]

AllCardEntries(cards) == Flat([c \in 1..Len(cards) |-> CardEntries(cards[c])])

(* the records detectFormFields pushes for the cards, card by card, slot by slot *)
experienceFieldEntries(nodes) == AllCardEntries(detectExperienceCards(nodes).cards)

(* detectExperienceCards and the records of the cards for every page, evaluated once *)
PageCards == [p \in 1..Len(Pages) |-> detectExperienceCards(Pages[p].nodes)] \o <<>>

PageExperienceFields ==
    [p \in 1..Len(Pages) |-> experienceFieldEntries(Pages[p].nodes)] \o <<>>

(* detectFormFields on page p: [fields, learned, votes] *)
SortedWithCards(p, pass) ==
    [fields |-> SortFields(pass.fields, 1, <<>>) \o PageExperienceFields[p],
     learned |-> pass.learned, votes |-> pass.votes]

detectFormFields(p, config, learned) ==
    SortedWithCards(p, DetectEach(Pages[p].nodes, config, 1,
                                  [fields |-> <<>>, learned |-> learned, votes |-> <<>>]))

(***************************************************************************)
(* masterInjection.js: field writer                                        *)
(*                                                                         *)
(* The mutable part of a control is its state                              *)
(*   [value, checked, selectedIndex, events, highlighted]                  *)
(* where events is the sequence of event types dispatched on it by the     *)
(* handler that is running.  selectedIndex counts from 1, 0 is "none".     *)
(***************************************************************************)
TruthyTokens == {"true", "1", "yes", "on", "checked"}

FillEvents == <<"input", "change", "keyup", "blur">>

AllDigits(s) == Len(s) > 0 /\ \A i \in 1..Len(s) : CharAt(s, i) \in DigitSet

(* the value an <input> keeps when a string is assigned to its value property *)
SanitizeValue(element, s) ==
    IF element.tagName = "INPUT" /\ element.type = "number" /\ ~AllDigits(s) THEN "" ELSE s

RECURSIVE FindOption(_, _, _, _)
(* options.find(option => ...) for one of the tiers, 0 when nothing is found *)
FindOption(options, tier, stringValue, i) ==
    IF i > Len(options) THEN 0
    ELSE LET option == options[i]
             lowerValue == toLowerCase(stringValue)
             hit == CASE tier = "value" -> option.value = stringValue
                      [] tier = "text" -> option.text = stringValue
                      [] OTHER -> \/ toLowerCase(option.value) = lowerValue
                                  \/ toLowerCase(option.text) = lowerValue
         IN IF hit THEN i ELSE FindOption(options, tier, stringValue, i + 1)

(* HTMLSelectElement.value setter: selects the first option with that value *)
SelectByValue(options, v) == FindOption(options, "value", v, 1)

Failure(error, withOptions) ==
    [success |-> FALSE, error |-> error, actualValue |-> Undefined,
     availableOptions |-> withOptions]

Success(actualValue) ==
    [success |-> TRUE, error |-> "", actualValue |-> actualValue, availableOptions |-> FALSE]

(* the tail of fillFormField after the assignment: events, framework       *)
(* handling, verification                                                  *)
FinishWrite(element, written, stringValue) ==
    LET dispatched == [written EXCEPT !.events = @ \o FillEvents]
        isCheck == element.type \in {"checkbox", "radio"}
    IN IF element.reactFiber
       THEN IF element.tagName = "INPUT"
            THEN LET after == [dispatched EXCEPT
                                  !.value = SanitizeValue(element, stringValue),
                                  !.events = Append(@, "input")]
                 IN [result |-> Success(IF isCheck THEN Bool(after.checked) ELSE Str(after.value)),
                     state |-> after]
            (* the value setter of HTMLInputElement called on another element *)
            ELSE [result |-> Failure("Illegal invocation", FALSE), state |-> dispatched]
       ELSE [result |-> Success(IF isCheck THEN Bool(dispatched.checked)
                                ELSE Str(dispatched.value)),
             state |-> dispatched]

(* element.value += stringValue *)
AppendValue(element, state, stringValue) ==
    [state EXCEPT !.value = SanitizeValue(element, @ \o stringValue)]

(* element.value = stringValue on a text-like control *)
AssignValue(element, state, stringValue) ==
    [state EXCEPT !.value = SanitizeValue(element, stringValue)]

(* no control is taken for a file input *)
IsNeverFileInput(element) == FALSE

(* the branch that refuses <input type="file"> *)
IsFileInput(element) == element.type = "file"

(* fillFormField: [result, state], state being the control's state after the call *)
fillFormField(element, state, value) ==
    IF element.readOnly THEN [result |-> Failure("Element is read-only", FALSE), state |-> state]
    ELSE IF element.disabled
    THEN [result |-> Failure("Element is disabled", FALSE), state |-> state]
    ELSE IF value.t \in {"null", "undefined"}
    THEN [result |-> Failure("No value provided", FALSE), state |-> state]
    ELSE
    LET stringValue == StringOf(value) IN
    IF element.tagName = "SELECT"
    THEN LET options == element.options
             byValue == FindOption(options, "value", stringValue, 1)
             byText == FindOption(options, "text", stringValue, 1)
             byLower == FindOption(options, "lower", stringValue, 1)
             matchingOption == IF byValue # 0 THEN byValue
                               ELSE IF byText # 0 THEN byText ELSE byLower
         IN IF matchingOption # 0
            THEN FinishWrite(element,
                             [state EXCEPT
                                 !.selectedIndex = SelectByValue(options, options[matchingOption].value),
                                 !.value = options[matchingOption].value],
                             stringValue)
            (* the partial-match tier reads lowerValue outside the block that *)
            (* declares it: the first call of its callback throws             *)
            ELSE IF Len(options) > 0
            THEN [result |-> Failure("lowerValue is not defined", FALSE), state |-> state]
            ELSE [result |-> Failure("No matching option found for value: " \o stringValue, TRUE),
                  state |-> state]
    ELSE IF element.type \in {"checkbox", "radio"}
    THEN LET booleanValue == \/ toLowerCase(stringValue) \in TruthyTokens
                             \/ (value.t = "boolean" /\ value.v)
         IN FinishWrite(element, [state EXCEPT !.checked = booleanValue], stringValue)
    ELSE IF IsFileInput(element)
    THEN [result |-> Failure("File inputs not supported for security reasons", FALSE),
          state |-> state]
    ELSE FinishWrite(element, AssignValue(element, state, stringValue), stringValue)

(***************************************************************************)
(* masterInjection.js: fill orchestrator                                   *)
(*                                                                         *)
(* A detected-field record is                                              *)
(*   [control, category, confidence, methods, priority,                    *)
(*    isExperienceField, cardIndex, experienceFieldType]                   *)
(* control being the position of the element in the page's nodes.       *)
(***************************************************************************)
SafetyFloor == 300000

(* the end of a turn that counts a refused write as a filled field *)
RecordFillAlwaysCounts(acc, field, index, value, fill) ==
    IF fill.result.success
    THEN [dom |-> [acc.dom EXCEPT ![field.control] =
                      [fill.state EXCEPT !.highlighted = TRUE]],
          filledCount |-> acc.filledCount + 1,
          fillResults |-> Append(acc.fillResults,
              [field |-> field.category, value |-> value,
               confidence |-> field.confidence,
               control |-> field.control,
               actualValue |-> fill.result.actualValue]),
          fillErrors |-> acc.fillErrors]
    ELSE [acc EXCEPT
            !.dom[field.control] = fill.state,
            !.filledCount = @ + 1,
            !.fillErrors = Append(@,
                [field |-> field.category,
                 error |-> fill.result.error,
                 index |-> index - 1])]

(* the end of one turn of fieldsToFill.forEach: fill is what fillFormField returned *)
RecordFill(acc, field, index, value, fill) ==
    IF fill.result.success
    THEN [dom |-> [acc.dom EXCEPT ![field.control] =
                      [fill.state EXCEPT !.highlighted = TRUE]],
          filledCount |-> acc.filledCount + 1,
          fillResults |-> Append(acc.fillResults,
              [field |-> field.category, value |-> value,
               confidence |-> field.confidence,
               control |-> field.control,
               actualValue |-> fill.result.actualValue]),
          fillErrors |-> acc.fillErrors]
    ELSE [acc EXCEPT
            !.dom[field.control] = fill.state,
            !.fillErrors = Append(@,
                [field |-> field.category,
                 error |-> fill.result.error,
                 index |-> index - 1])]

(* one turn of fieldsToFill.forEach from the value getValueForField returned *)
FillWith(acc, field, element, index, value) ==
    IF Truthy(value)
    THEN RecordFill(acc, field, index, value,
                    fillFormField(element, acc.dom[field.control], value))
    ELSE acc

(* one turn of a loop that does not look at the confidence of the record *)
FillOneAnyConfidence(revision, profileData, field, element, index, acc) ==
    IF field.control = 0 THEN acc
    ELSE IF element.readOnly \/ element.disabled THEN acc
    ELSE FillWith(acc, field, element, index,
                  getValueForField(revision, field.category, profileData, element))

(* one turn of fieldsToFill.forEach *)
FillOne(revision, profileData, field, element, index, acc) ==
    (* control 0 stands for a record whose element is missing *)
    IF field.control = 0 THEN acc
    ELSE IF element.readOnly \/ element.disabled THEN acc
    ELSE IF field.confidence < SafetyFloor THEN acc
    ELSE FillWith(acc, field, element, index,
                  getValueForField(revision, field.category, profileData, element))

RECURSIVE FillEachAborting(_, _, _, _, _, _)
(* a loop that a refused write ends *)
FillEachAborting(revision, profileData, fieldsToFill, nodes, index, acc) ==
    IF index > Len(fieldsToFill) \/ Len(acc.fillErrors) > 0 THEN acc
    ELSE FillEachAborting(revision, profileData, fieldsToFill, nodes, index + 1,
                  FillOne(revision, profileData, fieldsToFill[index],
                          nodes[fieldsToFill[index].control], index, acc))

RECURSIVE FillEach(_, _, _, _, _, _)
(* fieldsToFill.forEach(...): acc is [dom, filledCount, fillResults, fillErrors] *)
FillEach(revision, profileData, fieldsToFill, nodes, index, acc) ==
    IF index > Len(fieldsToFill) THEN acc
    ELSE FillEach(revision, profileData, fieldsToFill, nodes, index + 1,
                  FillOne(revision, profileData, fieldsToFill[index],
                          nodes[fieldsToFill[index].control], index, acc))

NoFillResult ==
    [filledCount |-> 0, fillResults |-> <<>>, totalFields |-> 0, fillErrors |-> <<>>,
     success |-> FALSE, error |-> ""]

(* what fillFormWithProfileData returns after the loop: done is the loop's outcome *)
FillSummary(fieldsToFill, done) ==
    [threw |-> FALSE,
     result |-> [filledCount |-> done.filledCount,
                 fillResults |-> done.fillResults,
                 totalFields |-> Len(fieldsToFill),
                 fillErrors |-> done.fillErrors,
                 success |-> done.filledCount > 0,
                 error |-> ""],
     dom |-> done.dom,
     startsDetection |-> FALSE]

(* fillFormWithProfileData as masterDetector calls it, window.masterDetector *)
(* being defined: [threw, result, dom, startsDetection]                      *)
(* With an empty field list it calls the async detectFormFields and spreads  *)
(* the promise it gets: a TypeError leaves the function.                     *)
fillFormWithProfileData(revision, profileData, fieldsToFill, nodes, dom) ==
    IF Len(fieldsToFill) = 0
    THEN [threw |-> TRUE, result |-> NoFillResult, dom |-> dom, startsDetection |-> TRUE]
    ELSE FillSummary(fieldsToFill,
                     FillEach(revision, profileData, fieldsToFill, nodes, 1,
                              [dom |-> dom, filledCount |-> 0,
                               fillResults |-> <<>>, fillErrors |-> <<>>]))

(***************************************************************************)
(* The content script on one page                                          *)
(***************************************************************************)
MaxPasses == 2
MaxFills == 1
(* the delay of the re-detection timeout, ms *)
RedetectDelay == 500

VARIABLES
    page,            \* index in Pages of the document the content script runs in
    revision,        \* revision of masterInjection.js that is loaded, 0 when none is
    isInitialized,
    portalConfig,
    detectedFields,
    learningData,
    dom,             \* state of every node: value, checked, selectedIndex, events, highlighted
    response,        \* what the last message was answered with
    lastFill,        \* the last call of fillFormWithProfileData
    passes,          \* detection passes run so far
    fills,           \* fillForm messages handled so far
    highlightTimers, \* pending removeHighlights timeouts
    learnedVotes,    \* per node, the votes of the learned strategy in the last pass
    writer,          \* the field writer checked on its own: see SpecWriter
    resolver,        \* the value resolver checked on its own: see SpecResolver
    filler,          \* the fill orchestrator checked on its own: see SpecFill
    observer,        \* the re-detection timers of the mutation observer: see SpecObserver
    learner,         \* the learned-pattern cache checked on its own: see SpecLearning
    aggregator,      \* the vote aggregator checked on its own: see SpecAggregator
    grouper,         \* the experience-card detection checked on its own: see SpecCards
    storage          \* chrome.storage.local and the StorageManager instances: see SpecStorage

vars == << page, revision, isInitialized, portalConfig, detectedFields, learningData, dom,
           response, lastFill, passes, fills, highlightTimers, learnedVotes >>

pure == << writer, resolver, filler, observer, learner, aggregator, grouper, storage >>

nodes == Pages[page].nodes

FreshState ==
    [value |-> "", checked |-> FALSE, selectedIndex |-> 0, events |-> <<>>,
     highlighted |-> FALSE]

NoResponse ==
    [kind |-> "none", success |-> FALSE, error |-> "", status |-> "", initialized |-> FALSE,
     totalFields |-> 0, filledFields |-> 0, fillResults |-> <<>>, fillErrors |-> <<>>,
     hasFillErrors |-> FALSE, totalCards |-> 0, detectionMethod |-> "", portal |-> "",
     calls |-> 0]

(* sendResponse(message): calls counts the calls made for the message being handled *)
sendResponse(message) == [message EXCEPT !.calls = @ + 1]

(* a handler whose catch logs the error and answers nothing *)
CaughtSwallowed(message) == [NoResponse EXCEPT !.kind = "error", !.error = message]

(* the catch of handleMessage *)
Caught(message) == sendResponse([NoResponse EXCEPT !.kind = "error", !.error = message])

NoFill ==
    [called |-> FALSE, threw |-> FALSE, profileGiven |-> FALSE, profileData |-> Undefined,
     fieldsToFill |-> <<>>, before |-> <<>>, result |-> NoFillResult]

IdleWriter ==
    [element |-> Blank, value |-> Undefined, initial |-> FreshState, state |-> FreshState,
     calls |-> 0, results |-> <<>>, events |-> <<>>]

IdleResolver ==
    [revision |-> 0, category |-> "", firstName |-> Undefined, lastName |-> Undefined,
     fullName |-> Undefined, profileData |-> Undefined, element |-> Blank,
     resolved |-> Undefined,
     done |-> FALSE]

IdleFiller ==
    [revision |-> 0, profileData |-> Undefined, fieldsToFill |-> <<>>, before |-> <<>>,
     dom |-> <<>>, called |-> FALSE, threw |-> FALSE, result |-> NoFillResult]

IdleAggregator ==
    [element |-> Blank, resultSets |-> <<>>, learned |-> <<>>, called |-> FALSE,
     result |-> NoResult, learnedAfter |-> <<>>]

IdleLearner ==
    [cache |-> <<>>, clock |-> 0, stores |-> 0, inserted |-> <<>>, written |-> <<>>,
     evicted |-> {}]

IdleGrouper == [nodes |-> << Body >>, called |-> FALSE, cards |-> <<>>]

(* a StorageManager after its constructor; key 0 is no key *)
NewManager == [encryptionKey |-> 0, isInitialized |-> FALSE]

(* local is chrome.storage.local (0 and "" for a key that is absent), managers *)
(* the StorageManager instances of the open pages, generated counts the keys   *)
(* crypto.subtle.generateKey has made, read is what the last getUserProfile    *)
(* returned                                                                    *)
IdleStorage ==
    [local |-> [encryptionKey |-> 0, userProfile |-> [key |-> 0, data |-> ""],
                extensionSettings |-> FALSE],
     managers |-> << NewManager, NewManager >>, generated |-> 0,
     read |-> [called |-> FALSE, by |-> 0, data |-> ""]]

NoPass == [id |-> 0, fields |-> <<>>]

(* observer.timers are the pending timeouts of the mutation observer, due in so   *)
(* many ms, sinceMutation the ms since the last mutation that added a control;    *)
(* the rest is history: requests numbers the detection passes in the order they   *)
(* were asked for, newest is the pass of the highest number that has run, last    *)
(* the pass that ran last, bursts counts the mutations that came after a quiet    *)
(* RedetectDelay, redetections the passes the timers have run                     *)
IdleObserver ==
    [timers |-> <<>>, sinceMutation |-> RedetectDelay, mutations |-> 0, requests |-> 0,
     newest |-> NoPass, last |-> NoPass, bursts |-> 0, redetections |-> 0]

(* observer once the pass asked for as number id has returned fields *)
PassRan(id, fields) ==
    [observer EXCEPT !.last = [id |-> id, fields |-> fields],
                     !.newest = IF id >= @.id THEN [id |-> id, fields |-> fields] ELSE @]

Init ==
    /\ observer = IdleObserver
    /\ learner = IdleLearner
    /\ aggregator = IdleAggregator
    /\ grouper = IdleGrouper
    /\ storage = IdleStorage
    /\ writer = IdleWriter
    /\ resolver = IdleResolver
    /\ filler = IdleFiller
    /\ page \in 1..Len(Pages)
    /\ revision \in {0, 1, 2}
    /\ isInitialized = FALSE
    /\ portalConfig = "null"
    /\ detectedFields = <<>>
    /\ learningData = <<>>
    /\ dom = [i \in 1..Len(Pages[page].nodes) |-> FreshState]
    /\ response = NoResponse
    /\ lastFill = NoFill
    /\ passes = 0
    /\ fills = 0
    /\ highlightTimers = 0
    /\ learnedVotes = [i \in 1..Len(Pages[page].nodes) |-> <<>>]

(* initializeContentScript *)
initializeContentScript ==
    /\ ~isInitialized
    /\ portalConfig' = identifyJobPortal(Pages[page].location)
    /\ isInitialized' = TRUE
    /\ UNCHANGED pure
    /\ UNCHANGED << page, revision, detectedFields, learningData, dom, response, lastFill,
                    passes, fills, highlightTimers, learnedVotes >>

(* a listener that answers a ping only once initialization has finished *)
PingAfterInitialization ==
    /\ response' = sendResponse([NoResponse EXCEPT !.kind = "ping", !.success = isInitialized,
                                      !.status = IF isInitialized THEN "ready"
                                                 ELSE "initializing",
                                      !.initialized = isInitialized])
    /\ UNCHANGED pure
    /\ UNCHANGED << page, revision, isInitialized, portalConfig, detectedFields, learningData,
                    dom, lastFill, passes, fills, highlightTimers, learnedVotes >>

(* the listener: a ping is answered at once *)
Ping ==
    /\ response' = sendResponse([NoResponse EXCEPT !.kind = "ping", !.success = TRUE, !.status = "ready",
                                      !.initialized = isInitialized])
    /\ UNCHANGED pure
    /\ UNCHANGED << page, revision, isInitialized, portalConfig, detectedFields, learningData,
                    dom, lastFill, passes, fills, highlightTimers, learnedVotes >>

(* the listener: any other message before initialization has finished *)
StillInitializing ==
    /\ ~isInitialized
    /\ response' = sendResponse([NoResponse EXCEPT !.kind = "initializing",
                                      !.error = "Master detector still initializing",
                                      !.status = "initializing"])
    /\ UNCHANGED pure
    /\ UNCHANGED << page, revision, isInitialized, portalConfig, detectedFields, learningData,
                    dom, lastFill, passes, fills, highlightTimers, learnedVotes >>

(* handleMessage: detectFields / GET_FIELDS *)
MsgDetectFields ==
    /\ isInitialized
    /\ passes < MaxPasses
    /\ \E pass \in {detectFormFields(page, portalConfig, learningData)} :
          /\ detectedFields' = pass.fields
          /\ learningData' = pass.learned
          /\ learnedVotes' = pass.votes
          /\ response' = sendResponse([NoResponse EXCEPT !.kind = "fields", !.success = TRUE,
                                            !.totalFields = Len(pass.fields),
                                            !.portal = PortalName(portalConfig)])
          /\ observer' = [PassRan(observer.requests + 1, pass.fields)
                             EXCEPT !.requests = @ + 1]
    /\ passes' = passes + 1
    /\ UNCHANGED << writer, resolver, filler, learner, aggregator, grouper, storage >>
    /\ UNCHANGED << page, revision, isInitialized, portalConfig, dom, lastFill, fills,
                    highlightTimers >>

(* handleMessage: detectExperienceCards / GET_EXPERIENCE_CARDS *)
MsgDetectExperienceCards ==
    /\ isInitialized
    /\ \E experienceData \in {PageCards[page]} :
          response' = sendResponse([NoResponse EXCEPT !.kind = "cards", !.success = TRUE,
                                         !.totalCards = experienceData.totalCards,
                                         !.detectionMethod = experienceData.detectionMethod,
                                         !.portal = PortalName(portalConfig)])
    /\ UNCHANGED pure
    /\ UNCHANGED << page, revision, isInitialized, portalConfig, detectedFields, learningData,
                    dom, lastFill, passes, fills, highlightTimers, learnedVotes >>

(* handleMessage: getDetectorInfo *)
MsgGetDetectorInfo ==
    /\ isInitialized
    /\ response' = sendResponse([NoResponse EXCEPT !.kind = "info", !.success = TRUE,
                                      !.initialized = isInitialized])
    /\ UNCHANGED pure
    /\ UNCHANGED << page, revision, isInitialized, portalConfig, detectedFields, learningData,
                    dom, lastFill, passes, fills, highlightTimers, learnedVotes >>

(* handleMessage: any other message type *)
MsgUnknown ==
    /\ isInitialized
    /\ response' = sendResponse([NoResponse EXCEPT !.kind = "unknown", !.error = "Unknown message type"])
    /\ UNCHANGED pure
    /\ UNCHANGED << page, revision, isInitialized, portalConfig, detectedFields, learningData,
                    dom, lastFill, passes, fills, highlightTimers, learnedVotes >>

(* handleMessage: fillForm / FILL_FORM, the engine not being loaded *)
MsgFillFormNoEngine ==
    /\ isInitialized
    /\ revision = 0
    /\ response' = sendResponse([NoResponse EXCEPT
                       !.kind = "fill",
                       !.error = "masterInjection not available - form filling engine required",
                       !.totalFields = Len(detectedFields)])
    /\ UNCHANGED pure
    /\ UNCHANGED << page, revision, isInitialized, portalConfig, detectedFields, learningData,
                    dom, lastFill, passes, fills, highlightTimers, learnedVotes >>

(* handleMessage: fillForm / FILL_FORM with request.profileData = requested *)
MsgFillForm(requested) ==
    /\ isInitialized
    /\ revision # 0
    /\ fills < MaxFills
    /\ Len(detectedFields) = 0 => passes < MaxPasses
    /\ \E profileData \in {Or(requested, EmptyProfile)},
          quiet \in {[i \in 1..Len(dom) |-> [dom[i] EXCEPT !.events = <<>>]]},
          pass \in {detectFormFields(page, portalConfig, learningData)} :
       \E fill \in {fillFormWithProfileData(revision, profileData, detectedFields, nodes,
                                            quiet)} :
          /\ dom' = fill.dom
          /\ lastFill' = [called |-> TRUE, threw |-> fill.threw,
                          profileGiven |-> Truthy(requested), profileData |-> profileData,
                          fieldsToFill |-> detectedFields, before |-> quiet,
                          result |-> fill.result]
          /\ IF fill.threw
             THEN (* the catch of handleMessage answers; the pass that was started *)
                  (* runs to its end                                              *)
                  /\ response' = Caught("newFields is not iterable")
                  /\ detectedFields' = pass.fields
                  /\ learningData' = pass.learned
                  /\ learnedVotes' = pass.votes
                  /\ passes' = passes + 1
                  /\ observer' = [PassRan(observer.requests + 1, pass.fields)
                                     EXCEPT !.requests = @ + 1]
                  /\ UNCHANGED highlightTimers
             ELSE /\ response' = sendResponse([NoResponse EXCEPT
                                     !.kind = "fill",
                                     !.success = fill.result.success,
                                     !.filledFields = fill.result.filledCount,
                                     !.totalFields = fill.result.totalFields,
                                     !.fillResults = fill.result.fillResults,
                                     !.fillErrors = fill.result.fillErrors,
                                     !.hasFillErrors = TRUE])
                  /\ highlightTimers' = highlightTimers + 1
                  /\ UNCHANGED << detectedFields, learningData, passes, learnedVotes,
                                  observer >>
    /\ fills' = fills + 1
    /\ UNCHANGED << writer, resolver, filler, learner, aggregator, grouper, storage >>
    /\ UNCHANGED << page, revision, isInitialized, portalConfig >>

(* the timeout set by fillFormWithProfileData fires *)
removeHighlights ==
    /\ highlightTimers > 0
    /\ highlightTimers' = highlightTimers - 1
    /\ dom' = [i \in 1..Len(dom) |-> [dom[i] EXCEPT !.highlighted = FALSE]]
    /\ UNCHANGED pure
    /\ UNCHANGED << page, revision, isInitialized, portalConfig, detectedFields, learningData,
                    response, lastFill, passes, fills, learnedVotes >>

Next ==
    \/ initializeContentScript
    \/ Ping
    \/ StillInitializing
    \/ MsgDetectFields
    \/ MsgDetectExperienceCards
    \/ MsgGetDetectorInfo
    \/ MsgUnknown
    \/ MsgFillFormNoEngine
    \/ \E r \in 1..Len(RequestProfiles) : MsgFillForm(RequestProfiles[r])
    \/ removeHighlights

Spec == Init /\ [][Next]_<<vars, pure>>

(***************************************************************************)
(* The field writer on its own: one control, one value, written twice      *)
(***************************************************************************)
(* writer is [element, value, initial, state, calls, results, events] *)
WriterElements ==
    << Input("text", "first_name"),
       Input("number", "years"),
       Input("checkbox", "agree"),
       Input("radio", "remote"),
       Input("file", "resume"),
       [Input("file", "cv") EXCEPT !.reactFiber = TRUE],
       [Input("text", "city") EXCEPT !.reactFiber = TRUE],
       [Input("text", "locked") EXCEPT !.readOnly = TRUE],
       [Input("text", "off") EXCEPT !.disabled = TRUE],
       [Blank EXCEPT !.tagName = "TEXTAREA", !.type = "textarea", !.name = "summary"],
       [Blank EXCEPT !.tagName = "TEXTAREA", !.type = "textarea", !.name = "notes",
                     !.reactFiber = TRUE],
       [Blank EXCEPT !.tagName = "SELECT", !.type = "select-one", !.name = "country",
                     !.options = CountryOptions],
       [Blank EXCEPT !.tagName = "SELECT", !.type = "select-one", !.name = "empty"] >>

WriterValues ==
    << Str("Jane"), Str("India"), Str("india"), Str("in"), Str("United"), Str("7"), Str("yes"),
       Str(""),
       Bool(TRUE), Bool(FALSE), Null, Undefined >>

(* what the control holds before the first write *)
WriterStates ==
    << FreshState,
       [FreshState EXCEPT !.value = "old"],
       [FreshState EXCEPT !.checked = TRUE],
       [FreshState EXCEPT !.value = "us", !.selectedIndex = 2] >>

(* a state a control of that kind can be in *)
StateFits(element, state) ==
    CASE element.tagName = "SELECT" ->
            /\ ~state.checked
            /\ \/ state.selectedIndex = 0 /\ state.value = ""
               \/ /\ state.selectedIndex \in 1..Len(element.options)
                  /\ element.options[state.selectedIndex].value = state.value
      [] element.type \in {"checkbox", "radio"} -> state.selectedIndex = 0 /\ state.value = ""
      [] element.type = "file" -> state = FreshState
      [] element.type = "number" -> state = FreshState
      [] OTHER -> state.selectedIndex = 0 /\ ~state.checked

IdleScript ==
    /\ page = 1
    /\ revision = 0
    /\ isInitialized = FALSE
    /\ portalConfig = "null"
    /\ detectedFields = <<>>
    /\ learningData = <<>>
    /\ dom = <<>>
    /\ response = NoResponse
    /\ lastFill = NoFill
    /\ passes = 0
    /\ fills = 0
    /\ highlightTimers = 0
    /\ learnedVotes = <<>>

InitWriter ==
    /\ IdleScript
    /\ resolver = IdleResolver
    /\ filler = IdleFiller
    /\ observer = IdleObserver
    /\ learner = IdleLearner
    /\ aggregator = IdleAggregator
    /\ grouper = IdleGrouper
    /\ storage = IdleStorage
    /\ \E e \in 1..Len(WriterElements), v \in 1..Len(WriterValues), s \in 1..Len(WriterStates) :
          /\ StateFits(WriterElements[e], WriterStates[s])
          /\ writer = [IdleWriter EXCEPT !.element = WriterElements[e],
                                         !.value = WriterValues[v],
                                         !.initial = WriterStates[s],
                                         !.state = WriterStates[s]]

(* one call of fillFormField; the events it dispatches are logged from empty *)
Write ==
    LET call == fillFormField(writer.element, [writer.state EXCEPT !.events = <<>>],
                              writer.value)
    IN writer' = [writer EXCEPT !.state = call.state,
                                !.calls = @ + 1,
                                !.results = Append(@, call.result),
                                !.events = Append(@, call.state.events)]

WriteFirst ==
    /\ writer.calls = 0
    /\ Write
    /\ UNCHANGED << vars, resolver, filler, observer, learner, aggregator, grouper, storage >>

WriteAgain ==
    /\ writer.calls = 1
    /\ Write
    /\ UNCHANGED << vars, resolver, filler, observer, learner, aggregator, grouper, storage >>

NextWriter == WriteFirst \/ WriteAgain

SpecWriter == InitWriter /\ [][NextWriter]_<<vars, pure>>

(***************************************************************************)
(* The value resolver on its own: one profile, one category                *)
(* resolver is [revision, category, firstName, lastName, fullName,         *)
(* profileData, resolved, done]                                            *)
(***************************************************************************)
FirstNames == << Undefined, Str(""), Str("Jane") >>
LastNames == << Undefined, Str(""), Str("Doe") >>
FullNames == << Undefined, Str("Dr. J. Doe") >>
Shapes == << "nested", "flat" >>

ResolverCategories ==
    << "fullName", "firstName", "lastName", "email", "skills", "jobTitle",
       "experience_jobTitle", "unknown" >>

(* the members of an object that are not undefined *)
Present(all) == [k \in {k \in DOMAIN all : all[k].t # "undefined"} |-> all[k]]

MakeProfile(shape, firstName, lastName, fullName) ==
    LET names == Present([firstName |-> firstName, lastName |-> lastName,
                          fullName |-> fullName])
    IN IF shape = "nested"
       THEN Obj([personal |-> Obj(names @@ [email |-> Str("jane@example.com")]),
                 professional |-> Obj([skills |-> Arr(<<Str("TLA+"), Str("Go")>>)])])
       ELSE Obj(names @@ [email |-> Str("jane@example.com"), skills |-> Str("TLA+, Go")])

(* controls a pass can classify as fullName: the name says so; the placeholder *)
(* of the second speaks of the first name only, that of the third of the     *)
(* last name only                                                            *)
ResolverElements ==
    << Input("text", "applicant_name"),
       [Input("text", "fullname") EXCEPT !.placeholder = "Given name"],
       [Input("text", "fullname") EXCEPT !.placeholder = "Surname"] >>

InitResolver ==
    /\ IdleScript
    /\ writer = IdleWriter
    /\ filler = IdleFiller
    /\ observer = IdleObserver
    /\ learner = IdleLearner
    /\ aggregator = IdleAggregator
    /\ grouper = IdleGrouper
    /\ storage = IdleStorage
    /\ \E r \in {1, 2}, c \in 1..Len(ResolverCategories), s \in 1..Len(Shapes),
          e \in 1..Len(ResolverElements),
          f \in 1..Len(FirstNames), l \in 1..Len(LastNames), n \in 1..Len(FullNames) :
          resolver = [revision |-> r, category |-> ResolverCategories[c],
                      firstName |-> FirstNames[f], lastName |-> LastNames[l],
                      fullName |-> FullNames[n],
                      profileData |-> MakeProfile(Shapes[s], FirstNames[f], LastNames[l],
                                                  FullNames[n]),
                      element |-> ResolverElements[e],
                      resolved |-> Undefined, done |-> FALSE]

(* one call of getValueForField, window.currentProcessingElement being the control *)
Resolve ==
    /\ ~resolver.done
    /\ resolver' = [resolver EXCEPT
                       !.resolved = getValueForField(resolver.revision, resolver.category,
                                                     resolver.profileData,
                                                     resolver.element),
                       !.done = TRUE]
    /\ UNCHANGED << vars, writer, filler, observer, learner, aggregator, grouper, storage >>

NextResolver == Resolve

SpecResolver == InitResolver /\ [][NextResolver]_<<vars, pure>>

(***************************************************************************)
(* The fill orchestrator on its own: one call of fillFormWithProfileData   *)
(* on a list of field records over a small form                            *)
(***************************************************************************)
MaxFieldRecords == 2

FillNodes ==
    << Body,
       Input("text", "first_name"),
       [Input("email", "email") EXCEPT !.readOnly = TRUE],
       [Input("text", "last_name") EXCEPT !.disabled = TRUE],
       [Blank EXCEPT !.tagName = "SELECT", !.type = "select-one", !.name = "country",
                     !.options = CountryOptions],
       Input("file", "portfolio") >>

FillProfile ==
    Obj([personal |-> Obj([firstName |-> Str("Jane"), lastName |-> Str("Doe"),
                           email |-> Str("jane@example.com"),
                           address |-> Obj([country |-> Str("India")])]),
         professional |-> Obj([portfolioUrl |-> Str("https://jane.example")])])

FillProfiles == << FillProfile, EmptyProfile >>

FieldRecord(control, category, confidence) ==
    [UnknownField(control) EXCEPT !.category = category, !.confidence = confidence,
                                  !.methods = {"direct"}, !.priority = 5]

(* the records a list is drawn from; control 0 is a record without element *)
FillCandidates ==
    << FieldRecord(2, "firstName", 900000),
       FieldRecord(2, "firstName", 300000),
       FieldRecord(2, "firstName", 299999),
       UnknownField(2),
       FieldRecord(2, "githubUrl", 900000),
       FieldRecord(3, "email", 900000),
       FieldRecord(4, "lastName", 900000),
       FieldRecord(5, "country", 900000),
       FieldRecord(5, "firstName", 900000),
       FieldRecord(6, "portfolioUrl", 900000),
       FieldRecord(0, "email", 900000) >>

(* the lists of at most n candidates *)
RECURSIVE RecordLists(_)
RecordLists(n) ==
    IF n = 0 THEN {<<>>}
    ELSE RecordLists(n - 1)
         \cup {Append(l, FillCandidates[c]) :
                  l \in {m \in RecordLists(n - 1) : Len(m) = n - 1},
                  c \in 1..Len(FillCandidates)}

InitFill ==
    /\ IdleScript
    /\ writer = IdleWriter
    /\ resolver = IdleResolver
    /\ observer = IdleObserver
    /\ learner = IdleLearner
    /\ aggregator = IdleAggregator
    /\ grouper = IdleGrouper
    /\ storage = IdleStorage
    /\ \E r \in {1, 2}, p \in 1..Len(FillProfiles), l \in RecordLists(MaxFieldRecords) :
          filler = [IdleFiller EXCEPT !.revision = r, !.profileData = FillProfiles[p],
                                      !.fieldsToFill = l,
                                      !.before = [i \in 1..Len(FillNodes) |-> FreshState],
                                      !.dom = [i \in 1..Len(FillNodes) |-> FreshState]]

(* one call of fillFormWithProfileData *)
FillFields ==
    /\ ~filler.called
    /\ \E fill \in {fillFormWithProfileData(filler.revision, filler.profileData,
                                             filler.fieldsToFill, FillNodes, filler.before)} :
          filler' = [filler EXCEPT !.called = TRUE, !.threw = fill.threw,
                                   !.result = fill.result, !.dom = fill.dom]
    /\ UNCHANGED << vars, writer, resolver, observer, learner, aggregator, grouper, storage >>

NextFill == FillFields

SpecFill == InitFill /\ [][NextFill]_<<vars, pure>>

(***************************************************************************)
(* The mutation observer and its re-detection timers                       *)
(*                                                                         *)
(* Every callback of the content script runs to its end before the next    *)
(* one starts: detectFormFields awaits only promises that are already      *)
(* settled, so a pass that has started finishes within the task that       *)
(* started it.  Time advances in steps of half the re-detection delay.     *)
(***************************************************************************)
MaxMutations == 3

(* the views a single-page application renders one after the other *)
Views == << 5, 4, 1 >>

(* the test of the observer's callback on the nodes a mutation has added *)
AddsFormElements(added) == \E i \in 1..Len(added) : added[i].tagName \in FormTags

InitObserver ==
    /\ writer = IdleWriter
    /\ resolver = IdleResolver
    /\ filler = IdleFiller
    /\ observer = IdleObserver
    /\ learner = IdleLearner
    /\ aggregator = IdleAggregator
    /\ grouper = IdleGrouper
    /\ storage = IdleStorage
    /\ page = Views[1]
    /\ revision = 0
    /\ isInitialized = FALSE
    /\ portalConfig = "null"
    /\ detectedFields = <<>>
    /\ learningData = <<>>
    /\ dom = [i \in 1..Len(Pages[page].nodes) |-> FreshState]
    /\ response = NoResponse
    /\ lastFill = NoFill
    /\ passes = 0
    /\ fills = 0
    /\ highlightTimers = 0
    /\ learnedVotes = [i \in 1..Len(Pages[page].nodes) |-> <<>>]

(* observer once its callback has seen a mutation that added a control *)
TimerSet ==
    [observer EXCEPT !.timers = Append(@, [due |-> RedetectDelay,
                                           id |-> observer.requests + 1]),
                     !.requests = @ + 1,
                     !.sinceMutation = 0,
                     !.mutations = @ + 1,
                     !.bursts = IF observer.sinceMutation >= RedetectDelay THEN @ + 1 ELSE @]

(* the page renders view p in place of the one it shows and the callback *)
(* of the MutationObserver runs on the nodes that were added             *)
ObserverCallback(p) ==
    /\ isInitialized
    /\ observer.mutations < MaxMutations
    /\ p # page
    /\ page' = p
    /\ dom' = [i \in 1..Len(Pages[p].nodes) |-> FreshState]
    /\ learnedVotes' = [i \in 1..Len(Pages[p].nodes) |-> <<>>]
    /\ observer' = IF AddsFormElements(Pages[p].nodes)
                   THEN TimerSet
                   ELSE [observer EXCEPT !.mutations = @ + 1]
    /\ UNCHANGED << writer, resolver, filler, learner, aggregator, grouper, storage >>
    /\ UNCHANGED << revision, isInitialized, portalConfig, detectedFields, learningData,
                    response, lastFill, passes, fills, highlightTimers >>

(* half the re-detection delay goes by, no timer being due *)
Tick ==
    /\ \A t \in 1..Len(observer.timers) : observer.timers[t].due > 0
    /\ Len(observer.timers) > 0 \/ observer.sinceMutation < RedetectDelay
    /\ observer' =
          [observer EXCEPT
              !.timers = [t \in 1..Len(@) |->
                             [@[t] EXCEPT !.due = @ - RedetectDelay \div 2]],
              !.sinceMutation = IF @ + RedetectDelay \div 2 >= RedetectDelay
                                THEN RedetectDelay
                                ELSE @ + RedetectDelay \div 2]
    /\ UNCHANGED << writer, resolver, filler, learner, aggregator, grouper, storage >>
    /\ UNCHANGED vars

(* a timeout callback that adds the records of its pass to the stored list *)
RedetectTimerMerging ==
    /\ Len(observer.timers) > 0
    /\ observer.timers[1].due = 0
    /\ \E pass \in {detectFormFields(page, portalConfig, learningData)} :
          /\ detectedFields' = detectedFields \o pass.fields
          /\ learningData' = pass.learned
          /\ learnedVotes' = pass.votes
          /\ observer' = [PassRan(observer.timers[1].id, pass.fields)
                             EXCEPT !.timers = Tail(@),
                                    !.redetections = @ + 1]
    /\ passes' = passes + 1
    /\ UNCHANGED << writer, resolver, filler, learner, aggregator, grouper, storage >>
    /\ UNCHANGED << page, revision, isInitialized, portalConfig, dom, response, lastFill,
                    fills, highlightTimers >>

(* the callback of the timeout the observer has set: the timers fire in *)
(* the order they were set                                               *)
RedetectTimer ==
    /\ Len(observer.timers) > 0
    /\ observer.timers[1].due = 0
    /\ \E pass \in {detectFormFields(page, portalConfig, learningData)} :
          /\ detectedFields' = pass.fields
          /\ learningData' = pass.learned
          /\ learnedVotes' = pass.votes
          /\ observer' = [PassRan(observer.timers[1].id, pass.fields)
                             EXCEPT !.timers = Tail(@),
                                    !.redetections = @ + 1]
    /\ passes' = passes + 1
    /\ UNCHANGED << writer, resolver, filler, learner, aggregator, grouper, storage >>
    /\ UNCHANGED << page, revision, isInitialized, portalConfig, dom, response, lastFill,
                    fills, highlightTimers >>

NextObserver ==
    \/ initializeContentScript
    \/ \E v \in 1..Len(Views) : ObserverCallback(Views[v])
    \/ Tick
    \/ RedetectTimer
    \/ MsgDetectFields

SpecObserver == InitObserver /\ [][NextObserver]_<<vars, pure>>

(***************************************************************************)
(* The learned-pattern cache on its own: storeDetectionLearning on a Map   *)
(* that is full or nearly full                                             *)
(***************************************************************************)
MaxStores == 3

RECURSIVE Numeral(_)
Numeral(n) ==
    IF n < 10 THEN SubSeq(DigitChars, n + 1, n + 1)
    ELSE Numeral(n \div 10) \o SubSeq(DigitChars, (n % 10) + 1, (n % 10) + 1)

(* the i-th control of a long form *)
LongFormControl(i) == Input("text", "field_" \o Numeral(i))

LongFormPrints ==
    [i \in 1..MaxLearningEntries + MaxStores |-> Fingerprint(LongFormControl(i))] \o <<>>

(* learningData after the first n controls have been classified, one after *)
(* the other                                                                *)
LearnedFrom(n) ==
    [i \in 1..n |-> [fingerprint |-> LongFormPrints[i], fieldType |-> "firstName",
                     confidence |-> 600000]]

(* the fingerprints the Map holds *)
Keys(learned) == {learned[k].fingerprint : k \in 1..Len(learned)}

(* the time each of the first n fingerprints was set at *)
StampsFrom(n) ==
    [fp \in {LongFormPrints[i] : i \in 1..n} |->
        CHOOSE i \in 1..n : LongFormPrints[i] = fp]

(* the controls that are classified next: the two oldest of the Map and *)
(* controls it has not seen                                              *)
StoredNext == << 1, 2, MaxLearningEntries + 1, MaxLearningEntries + 2, MaxLearningEntries + 3 >>

InitLearning ==
    /\ IdleScript
    /\ writer = IdleWriter
    /\ resolver = IdleResolver
    /\ filler = IdleFiller
    /\ observer = IdleObserver
    /\ aggregator = IdleAggregator
    /\ grouper = IdleGrouper
    /\ storage = IdleStorage
    /\ \E n \in {MaxLearningEntries - 1, MaxLearningEntries} :
          learner = [cache |-> LearnedFrom(n), clock |-> n, stores |-> 0,
                     inserted |-> StampsFrom(n), written |-> StampsFrom(n),
                     evicted |-> {}]

(* learner.inserted once fingerprint has been set at time now *)
InsertedAt(fingerprint, now) ==
    IF fingerprint \in Keys(learner.cache) THEN learner.inserted
    ELSE (fingerprint :> now) @@ learner.inserted

(* one call of storeDetectionLearning, Date.now() having advanced *)
Store(i, fieldType, confidence) ==
    /\ learner.stores < MaxStores
    /\ \E learned \in {storeDetectionLearning(learner.cache, LongFormControl(i),
                                              fieldType, confidence)},
          fingerprint \in {Fingerprint(LongFormControl(i))},
          now \in {learner.clock + 1} :
          learner' = [cache |-> learned, clock |-> now, stores |-> learner.stores + 1,
                      inserted |-> InsertedAt(fingerprint, now),
                      written |-> (fingerprint :> now) @@ learner.written,
                      evicted |-> (Keys(learner.cache) \cup {fingerprint}) \ Keys(learned)]
    /\ UNCHANGED << vars, writer, resolver, filler, observer, aggregator, grouper, storage >>

NextLearning ==
    \E s \in 1..Len(StoredNext) : Store(StoredNext[s], "email", 700000)

SpecLearning == InitLearning /\ [][NextLearning]_<<vars, pure>>

(***************************************************************************)
(* The aggregator on its own: combineDetectionResults on the votes the     *)
(* strategies give                                                         *)
(***************************************************************************)
MaxVotes == 3

(* votes as the strategies produce them: a label that names two            *)
(* categories, an exact and a near attribute match, a selector of the      *)
(* portal, a phrase of semanticPatterns                                    *)
CandidateVotes ==
    << Vote("firstName", 750000, "contextual", MASTER_FIELD_DATABASE["firstName"].priority),
       Vote("fullName", 750000, "contextual", MASTER_FIELD_DATABASE["fullName"].priority),
       Vote("email", 950000, "direct", MASTER_FIELD_DATABASE["email"].priority),
       Vote("email", 571428, "fuzzy", MASTER_FIELD_DATABASE["email"].priority),
       Vote("fullName", 980000, "portal-specific",
            MASTER_FIELD_DATABASE["fullName"].priority + 2),
       Vote("firstName", 850000, "semantic", MASTER_FIELD_DATABASE["firstName"].priority),
       Vote("phone", 800000, "fuzzy", MASTER_FIELD_DATABASE["phone"].priority) >>

RECURSIVE VoteLists(_)
(* the sequences of at most n candidate votes *)
VoteLists(n) ==
    IF n = 0 THEN {<<>>}
    ELSE VoteLists(n - 1) \cup
         {Append(l, CandidateVotes[v]) : l \in {k \in VoteLists(n - 1) : Len(k) = n - 1},
                                        v \in 1..Len(CandidateVotes)}

AggregatedElement == [Input("text", "") EXCEPT !.id = "q1"]

(* learningData before the call: empty, or holding the control already *)
LearnedBefore ==
    << <<>>,
       << [fingerprint |-> Fingerprint(AggregatedElement), fieldType |-> "email",
           confidence |-> 855000] >> >>

InitAggregator ==
    /\ IdleScript
    /\ writer = IdleWriter
    /\ resolver = IdleResolver
    /\ filler = IdleFiller
    /\ observer = IdleObserver
    /\ learner = IdleLearner
    /\ grouper = IdleGrouper
    /\ storage = IdleStorage
    /\ \E votes \in VoteLists(MaxVotes), b \in 1..Len(LearnedBefore) :
          aggregator = [IdleAggregator EXCEPT !.element = AggregatedElement,
                                              !.resultSets = << votes >>,
                                              !.learned = LearnedBefore[b]]

(* one call of combineDetectionResults *)
Combine ==
    /\ ~aggregator.called
    /\ \E combined \in {combineDetectionResults(aggregator.element, aggregator.resultSets,
                                                 aggregator.learned)} :
          aggregator' = [aggregator EXCEPT !.called = TRUE,
                                           !.result = combined.result,
                                           !.learnedAfter = combined.learned]
    /\ UNCHANGED << vars, writer, resolver, filler, observer, learner, grouper, storage >>

NextAggregator == Combine

SpecAggregator == InitAggregator /\ [][NextAggregator]_<<vars, pure>>

(***************************************************************************)
(* The experience-card detection on its own: detectExperienceCards on an   *)
(* experience section with two groups of two controls                      *)
(***************************************************************************)
(* class of the element around a group: a card of cardSelectors, or a row  *)
(* that no selector finds                                                  *)
WrapperClasses == << "experience-card", "row" >>

(* names of the second, third and fourth control *)
SecondNames == << "company_1", "start_1" >>
ThirdNames == << "job_title_2", "job_title_1" >>
FourthNames == << "company_2", "company_1" >>

(* the section: the second wrapper is a child of the section or of the     *)
(* first wrapper (under), the controls are children of their wrapper or,   *)
(* when flat, of the section                                               *)
CardNodes(classA, classB, under, flat, second, third, fourth) ==
    << Body,
       [Blank EXCEPT !.tagName = "SECTION", !.className = "experience-section"],
       [Blank EXCEPT !.className = classA, !.parent = 2],
       [Input("text", "job_title_1") EXCEPT !.parent = IF flat THEN 2 ELSE 3],
       [Input("text", second) EXCEPT !.parent = IF flat THEN 2 ELSE 3],
       [Blank EXCEPT !.className = classB, !.parent = under],
       [Input("text", third) EXCEPT !.parent = IF flat THEN 2 ELSE 6],
       [Input("text", fourth) EXCEPT !.parent = IF flat THEN 2 ELSE 6] >>

InitCards ==
    /\ IdleScript
    /\ writer = IdleWriter
    /\ resolver = IdleResolver
    /\ filler = IdleFiller
    /\ observer = IdleObserver
    /\ learner = IdleLearner
    /\ aggregator = IdleAggregator
    /\ storage = IdleStorage
    /\ \E a \in 1..Len(WrapperClasses), b \in 1..Len(WrapperClasses), under \in {2, 3},
          flat \in BOOLEAN, second \in 1..Len(SecondNames), third \in 1..Len(ThirdNames),
          fourth \in 1..Len(FourthNames) :
          grouper = [IdleGrouper EXCEPT
                        !.nodes = CardNodes(WrapperClasses[a], WrapperClasses[b], under,
                                            flat, SecondNames[second], ThirdNames[third],
                                            FourthNames[fourth])]

(* one call of detectExperienceCards *)
DetectCards ==
    /\ ~grouper.called
    /\ \E experienceData \in {detectExperienceCards(grouper.nodes)} :
          grouper' = [grouper EXCEPT !.called = TRUE, !.cards = experienceData.cards]
    /\ UNCHANGED << vars, writer, resolver, filler, observer, learner, aggregator, storage >>

NextCards == DetectCards

SpecCards == InitCards /\ [][NextCards]_<<vars, pure>>

(***************************************************************************)
(* utils/storage.js and the clearData of the service worker: the           *)
(* encryption key and the encrypted profile in chrome.storage.local        *)
(***************************************************************************)
MaxKeys == 3

(* JSON.stringify of the profiles that are saved *)
ProfileTexts == << "{\"firstName\":\"Jane\"}", "{\"firstName\":\"Ann\"}" >>

NoProfile == [key |-> 0, data |-> ""]

(* generateOrLoadEncryptionKey of manager i: the key in storage is         *)
(* imported, or a new key is generated and stored                          *)
generateOrLoadEncryptionKey(s, i) ==
    IF s.local.encryptionKey # 0
    THEN [s EXCEPT !.managers[i].encryptionKey = s.local.encryptionKey]
    ELSE [s EXCEPT !.managers[i].encryptionKey = s.generated + 1,
                   !.local.encryptionKey = s.generated + 1,
                   !.generated = @ + 1]

initialize(s, i) ==
    [generateOrLoadEncryptionKey(s, i) EXCEPT !.managers[i].isInitialized = TRUE]

(* if (!this.isInitialized) await this.initialize() *)
Initialized(s, i) == IF s.managers[i].isInitialized THEN s ELSE initialize(s, i)

(* encryptData: AES-GCM under the key the manager holds *)
encryptData(manager, data) == [key |-> manager.encryptionKey, data |-> data]

(* decryptData: the text, or a throw when the key is not the one the data  *)
(* was encrypted under                                                     *)
decryptData(manager, encryptedData) ==
    IF encryptedData.key = manager.encryptionKey
    THEN [threw |-> FALSE, data |-> encryptedData.data]
    ELSE [threw |-> TRUE, data |-> ""]

InitStorage ==
    /\ IdleScript
    /\ writer = IdleWriter
    /\ resolver = IdleResolver
    /\ filler = IdleFiller
    /\ observer = IdleObserver
    /\ learner = IdleLearner
    /\ aggregator = IdleAggregator
    /\ grouper = IdleGrouper
    /\ storage = IdleStorage

Others == << vars, writer, resolver, filler, observer, learner, aggregator, grouper >>

(* a page that loads storage.js is opened again: new StorageManager() *)
Reopen(i) ==
    /\ storage.managers[i] # NewManager
    /\ storage' = [storage EXCEPT !.managers[i] = NewManager]
    /\ UNCHANGED Others

(* storageManager.initialize() of page i *)
Initialize(i) ==
    /\ storage.local.encryptionKey = 0 => storage.generated < MaxKeys
    /\ storage' = initialize(storage, i)
    /\ UNCHANGED Others

(* setUserProfile(profileData) of page i *)
SetUserProfile(i, text) ==
    /\ (~storage.managers[i].isInitialized /\ storage.local.encryptionKey = 0)
          => storage.generated < MaxKeys
    /\ \E s \in {Initialized(storage, i)} :
          storage' = [s EXCEPT !.local.userProfile = encryptData(s.managers[i], text)]
    /\ UNCHANGED Others

(* getUserProfile() of page i: null when nothing is stored or decryption throws *)
GetUserProfile(i) ==
    /\ (~storage.managers[i].isInitialized /\ storage.local.encryptionKey = 0)
          => storage.generated < MaxKeys
    /\ IF storage.local.userProfile = NoProfile
       THEN storage' = [storage EXCEPT !.read = [called |-> TRUE, by |-> i, data |-> ""]]
       ELSE \E s \in {Initialized(storage, i)} :
               storage' = [s EXCEPT !.read =
                              [called |-> TRUE, by |-> i,
                               data |-> decryptData(s.managers[i],
                                                    s.local.userProfile).data]]
    /\ UNCHANGED Others

(* StorageManager.clearAllData: everything but the encryption key goes *)
clearAllData ==
    /\ storage' = [storage EXCEPT !.local.userProfile = NoProfile,
                                  !.local.extensionSettings = FALSE]
    /\ UNCHANGED Others

(* handleUpdateSettings of the service worker *)
handleUpdateSettings ==
    /\ storage' = [storage EXCEPT !.local.extensionSettings = TRUE]
    /\ UNCHANGED Others

(* handleClearData of the service worker: everything but the settings goes *)
handleClearData ==
    /\ storage' = [storage EXCEPT !.local.userProfile = NoProfile,
                                  !.local.encryptionKey = 0]
    /\ UNCHANGED Others

NextStorage ==
    \/ \E i \in 1..Len(storage.managers) : Reopen(i)
    \/ \E i \in 1..Len(storage.managers) : Initialize(i)
    \/ \E i \in 1..Len(storage.managers), t \in 1..Len(ProfileTexts) :
          SetUserProfile(i, ProfileTexts[t])
    \/ \E i \in 1..Len(storage.managers) : GetUserProfile(i)
    \/ clearAllData
    \/ handleUpdateSettings
    \/ handleClearData

SpecStorage == InitStorage /\ [][NextStorage]_<<vars, pure>>

(***************************************************************************)
(* Properties                                                              *)
(***************************************************************************)

(* C1: every call of fillFormWithProfileData hands a result object back to *)
(* its caller; no call ends with an exception, whatever the field list and *)
(* the profile are.                                                        *)
C1_FillAlwaysReturns == lastFill.called => ~lastFill.threw

IsEmptyProfile(profileData) == profileData.t = "object" /\ DOMAIN profileData.v = {}

(* what a fill left of a control, apart from its highlight *)
Content(state) == << state.value, state.checked, state.selectedIndex, state.events >>

(* C2: a fill that is given no profile or an empty profile reports success *)
(* false with an explicit message and writes to no control.                *)
C2_EmptyProfileShortCircuits ==
    (lastFill.called /\ ~lastFill.threw /\ IsEmptyProfile(lastFill.profileData)) =>
        /\ ~lastFill.result.success
        /\ lastFill.result.error # ""
        /\ \A i \in 1..Len(dom) : Content(dom[i]) = Content(lastFill.before[i])

ExperiencesOf(profileData) ==
    LET experiences == getNestedProfileValue(<<"professional", "experiences">>, profileData)
    IN IF experiences.t = "array" THEN experiences.v ELSE <<>>

CardsOf(fields) ==
    {fields[k].cardIndex : k \in {j \in 1..Len(fields) : fields[j].isExperienceField}}

ValuesOfEntry(entry) == {entry.v[key].v : key \in DOMAIN entry.v}

TitleOfEntry(entry) ==
    IF "jobTitle" \in DOMAIN entry.v THEN entry.v["jobTitle"].v
    ELSE IF "title" \in DOMAIN entry.v THEN entry.v["title"].v
    ELSE ""

(* C3: when the profile has as many experience entries as the pass found   *)
(* cards, a fill writes into the controls of card i only values of         *)
(* experiences[i-1], and the jobTitle control of card i holds the title of *)
(* experiences[i-1].                                                       *)
C3_CardsFilledFromOwnExperience ==
    LET fields == lastFill.fieldsToFill
        experiences == ExperiencesOf(lastFill.profileData)
    IN (/\ lastFill.called /\ ~lastFill.threw
        /\ Len(experiences) > 0
        /\ Cardinality(CardsOf(fields)) = Len(experiences)) =>
           \A k \in 1..Len(fields) :
              fields[k].isExperienceField =>
                 /\ dom[fields[k].control].events # <<>> =>
                       dom[fields[k].control].value
                           \in ValuesOfEntry(experiences[fields[k].cardIndex])
                 /\ fields[k].experienceFieldType = "jobTitle" =>
                       dom[fields[k].control].value
                           = TitleOfEntry(experiences[fields[k].cardIndex])

(* C4: the writer never assigns to a control of type file: every call on   *)
(* it fails, dispatches no event and leaves the control as it was.         *)
C4_FileControlNeverAssigned ==
    (writer.calls > 0 /\ writer.element.type = "file") =>
        /\ \A k \in 1..writer.calls :
              ~writer.results[k].success /\ writer.events[k] = <<>>
        /\ Content(writer.state) = Content(writer.initial)

C4_Witness ==
    /\ writer.calls = 2
    /\ writer.element.type = "file"
    /\ ~writer.element.reactFiber
    /\ writer.value.t = "string"
    /\ writer.value.v = "Jane"
    /\ writer.results[2].error = "File inputs not supported for security reasons"

IsText(x) == x.t = "string" /\ x.v # ""

(* C5: with a non-empty firstName and a non-empty lastName in the profile, *)
(* category fullName resolves to trim(firstName + ' ' + lastName), whether *)
(* or not the profile stores a fullName.                                   *)
C5_FullNameIsConstructed ==
    (/\ resolver.done /\ resolver.category = "fullName"
     /\ IsText(resolver.firstName) /\ IsText(resolver.lastName)) =>
        /\ resolver.resolved.t = "string"
        /\ resolver.resolved.v = trim(resolver.firstName.v \o " " \o resolver.lastName.v)

C5_Witness ==
    /\ resolver.done /\ resolver.category = "fullName"
    /\ IsText(resolver.firstName) /\ IsText(resolver.lastName)
    /\ IsText(resolver.fullName)
    /\ resolver.resolved.t = "string"
    /\ resolver.resolved.v = "Jane Doe"

(* C6: with only one of firstName and lastName in the profile, category    *)
(* fullName resolves to exactly that part.                                 *)
C6_OnePartResolvesToThatPart ==
    (resolver.done /\ resolver.category = "fullName") =>
        /\ (IsText(resolver.firstName) /\ ~IsText(resolver.lastName)) =>
              resolver.resolved.t = "string" /\ resolver.resolved.v = resolver.firstName.v
        /\ (IsText(resolver.lastName) /\ ~IsText(resolver.firstName)) =>
              resolver.resolved.t = "string" /\ resolver.resolved.v = resolver.lastName.v

SlotsOfCard(fields, cardIndex) ==
    Cardinality({j \in 1..Len(fields) :
                    fields[j].isExperienceField /\ fields[j].cardIndex = cardIndex})

(* C7 as stated: every record of a pass has a confidence in [0, 1] and     *)
(* every record that is not unknown, ordinary or of an experience card,    *)
(* has a confidence above 0.5.                                             *)
C7_AllClassifiedAboveHalf ==
    \A k \in 1..Len(detectedFields) :
        /\ detectedFields[k].confidence >= 0
        /\ detectedFields[k].confidence <= Micro
        /\ detectedFields[k].category # "unknown" =>
              detectedFields[k].confidence > confidenceThreshold

(* C7 amended: every record of a pass has a confidence in [0, 1]; an       *)
(* unknown record has 0; an ordinary record that is not unknown has more   *)
(* than 0.5; a record of an experience card has min(15 k, 100) / 100, k    *)
(* being the number of slots found in its card, at least 2.                *)
C7_ConfidenceRanges ==
    \A k \in 1..Len(detectedFields) :
        LET field == detectedFields[k]
            slots == SlotsOfCard(detectedFields, field.cardIndex)
        IN /\ field.confidence >= 0
           /\ field.confidence <= Micro
           /\ field.category = "unknown" => field.confidence = 0
           /\ (field.category # "unknown" /\ ~field.isExperienceField) =>
                 field.confidence > confidenceThreshold
           /\ field.isExperienceField =>
                 /\ slots >= 2
                 /\ field.confidence = (Min2(15 * slots, 100) * Micro) \div 100

C7_Witness ==
    /\ passes > 0
    /\ \E k \in 1..Len(detectedFields) :
          /\ detectedFields[k].isExperienceField
          /\ detectedFields[k].confidence < confidenceThreshold
    /\ \E k \in 1..Len(detectedFields) :
          /\ ~detectedFields[k].isExperienceField
          /\ detectedFields[k].category # "unknown"
    /\ \E k \in 1..Len(detectedFields) : detectedFields[k].category = "unknown"

(* a step in which a detection pass ran *)
PassStep == passes' = passes + 1

IsClassified(field) == ~field.isExperienceField /\ field.category # "unknown"

SharesFingerprint(c, d) == Fingerprint(nodes[c]) = Fingerprint(nodes[d])

UniqueFingerprint(c) ==
    \A d \in 1..Len(nodes) : (d # c /\ IsControl(nodes[d])) => ~SharesFingerprint(c, d)

Boosted(confidence) == Min2(confidence + 100000, 950000)

SameActualValue(a, b) ==
    /\ a.t = b.t
    /\ CASE a.t = "string" -> a.v = b.v
         [] a.t = "boolean" -> a.v = b.v
         [] OTHER -> TRUE

(* C10: a second write of the same value to the same control ends as the   *)
(* first did: same success flag, same actualValue, and the same events     *)
(* dispatched, all of them from the fixed list.                            *)
C10_SecondWriteSameAsFirst ==
    writer.calls = 2 =>
        /\ writer.results[2].success = writer.results[1].success
        /\ SameActualValue(writer.results[2].actualValue, writer.results[1].actualValue)
        /\ writer.events[2] = writer.events[1]
        /\ \A e \in 1..Len(writer.events[2]) :
              \E f \in 1..Len(FillEvents) : writer.events[2][e] = FillEvents[f]
        /\ writer.results[2].success => SubSeq(writer.events[2], 1, 4) = FillEvents

C10_Witness ==
    /\ writer.calls = 2
    /\ writer.element.type = "text"
    /\ writer.initial.value = "old"
    /\ writer.value.t = "string"
    /\ writer.value.v = "Jane"
    /\ writer.results[1].success
    /\ writer.results[2].actualValue.v = "Jane"
    /\ writer.events[2] = FillEvents

(***************************************************************************)
(* Select controls                                                         *)
(***************************************************************************)
(* the first index at which hits is TRUE, 0 when there is none *)
FirstHit(hits) ==
    IF \E i \in DOMAIN hits : hits[i]
    THEN CHOOSE i \in DOMAIN hits : hits[i] /\ \A j \in 1..(i - 1) : ~hits[j]
    ELSE 0

(* the options a tier accepts for a value, tier by tier as the claim lists them *)
TierHits(options, tier, stringValue) ==
    [i \in 1..Len(options) |->
        CASE tier = 1 -> options[i].value = stringValue
          [] tier = 2 -> options[i].text = stringValue
          [] tier = 3 -> \/ toLowerCase(options[i].value) = toLowerCase(stringValue)
                         \/ toLowerCase(options[i].text) = toLowerCase(stringValue)
          [] OTHER -> \/ includes(toLowerCase(options[i].text), toLowerCase(stringValue))
                      \/ includes(toLowerCase(stringValue), toLowerCase(options[i].text))]

(* the first tier that has a hit, 0 when no tier has one *)
WinningTier(options, stringValue) ==
    FirstHit([tier \in 1..4 |-> FirstHit(TierHits(options, tier, stringValue)) # 0])

(* the option the winning tier finds, 0 when no tier has a hit *)
TierOption(options, stringValue) ==
    IF WinningTier(options, stringValue) = 0 THEN 0
    ELSE FirstHit(TierHits(options, WinningTier(options, stringValue), stringValue))

(* the first call of the writer was on a select that can be written, with a value *)
SelectWritten ==
    /\ writer.calls = 1
    /\ writer.element.tagName = "SELECT"
    /\ ~writer.element.readOnly
    /\ ~writer.element.disabled
    /\ writer.value.t \notin {"null", "undefined"}

(* C11: a write to a select succeeds and selects the option found by the    *)
(* first tier that has a hit, the tiers being exact value, exact text,      *)
(* case-insensitive value or text, substring in either direction.           *)
C11_SelectTiers ==
    (SelectWritten /\ TierOption(writer.element.options, StringOf(writer.value)) # 0) =>
        /\ writer.results[1].success
        /\ writer.state.value
              = writer.element.options[TierOption(writer.element.options,
                                                  StringOf(writer.value))].value

(* C12: a write to a select none of whose options matches in any tier fails, *)
(* leaves the selection as it was, dispatches no event and returns the list  *)
(* of available options.                                                     *)
C12_NoMatchFailsWithOptions ==
    (SelectWritten /\ TierOption(writer.element.options, StringOf(writer.value)) = 0) =>
        /\ ~writer.results[1].success
        /\ Content(writer.state) = Content(writer.initial)
        /\ writer.events[1] = <<>>
        /\ writer.results[1].availableOptions

(***************************************************************************)
(* The fill orchestrator                                                   *)
(***************************************************************************)
(* the call of fillFormWithProfileData has returned a result *)
Filled == filler.called /\ ~filler.threw

(* a record the claim says is passed over: no element, a control that is   *)
(* disabled or read-only, a confidence below 0.3                           *)
PassedOver(field) ==
    \/ field.control = 0
    \/ FillNodes[field.control].readOnly
    \/ FillNodes[field.control].disabled
    \/ field.confidence * 10 < 3 * Micro

(* C13: a fill writes to no control all of whose records are passed over   *)
(* or unknown, and no entry of fillResults comes from such a record.       *)
C13_SkippedNeverWritten ==
    Filled =>
        /\ \A c \in 1..Len(FillNodes) :
              (\A k \in 1..Len(filler.fieldsToFill) :
                    filler.fieldsToFill[k].control = c =>
                        \/ PassedOver(filler.fieldsToFill[k])
                        \/ filler.fieldsToFill[k].category = "unknown")
              => Content(filler.dom[c]) = Content(filler.before[c])
        /\ \A r \in 1..Len(filler.result.fillResults) :
              /\ filler.result.fillResults[r].field # "unknown"
              /\ filler.result.fillResults[r].confidence * 10 >= 3 * Micro
              /\ ~FillNodes[filler.result.fillResults[r].control].readOnly
              /\ ~FillNodes[filler.result.fillResults[r].control].disabled

C13_Witness ==
    /\ Filled
    /\ filler.profileData = FillProfile
    /\ filler.fieldsToFill = << FieldRecord(2, "firstName", 299999),
                                FieldRecord(5, "country", 900000) >>
    /\ filler.result.filledCount = 1
    /\ filler.dom[2].value = ""
    /\ filler.dom[5].value = "in"

PassesChecks(k) == ~PassedOver(filler.fieldsToFill[k])

(* the value the Value Resolver gives for record k *)
ResolvedFor(k) ==
    getValueForField(filler.revision, filler.fieldsToFill[k].category, filler.profileData,
                     FillNodes[filler.fieldsToFill[k].control])

(* record k gets past the skip checks and the resolver has a value for it *)
Attempted(k) == PassesChecks(k) /\ Truthy(ResolvedFor(k))

(* the Field Writer refuses the value of record k *)
Refused(k) ==
    ~fillFormField(FillNodes[filler.fieldsToFill[k].control],
                   filler.before[filler.fieldsToFill[k].control],
                   ResolvedFor(k)).result.success

(* C15: a write the Field Writer refuses, or that throws, is recorded in   *)
(* fillErrors for that field, and every record of the list is still        *)
(* processed: each attempted record ends in fillResults or in fillErrors.  *)
C15_FailureDoesNotAbort ==
    Filled =>
        /\ \A k \in 1..Len(filler.fieldsToFill) :
              Attempted(k) /\ Refused(k) =>
                  \E e \in 1..Len(filler.result.fillErrors) :
                      /\ filler.result.fillErrors[e].index = k - 1
                      /\ filler.result.fillErrors[e].field = filler.fieldsToFill[k].category
                      /\ filler.result.fillErrors[e].error # ""
        /\ Cardinality({k \in 1..Len(filler.fieldsToFill) : Attempted(k)})
              = filler.result.filledCount + Len(filler.result.fillErrors)

C15_Witness ==
    /\ Filled
    /\ filler.profileData = FillProfile
    /\ filler.fieldsToFill = << FieldRecord(6, "portfolioUrl", 900000),
                                FieldRecord(2, "firstName", 900000) >>
    /\ Len(filler.result.fillErrors) = 1
    /\ filler.result.fillErrors[1].index = 0
    /\ filler.result.filledCount = 1
    /\ filler.dom[2].value = "Jane"

(* C16: every record that gets past the skip checks yields exactly one     *)
(* recorded outcome in the result: filled, not filled with a reason, or    *)
(* error.                                                                  *)
C16_EveryPassingFieldRecorded ==
    Filled =>
        Cardinality({k \in 1..Len(filler.fieldsToFill) : PassesChecks(k)})
            = Len(filler.result.fillResults) + Len(filler.result.fillErrors)

(***************************************************************************)
(* The message listener                                                    *)
(***************************************************************************)
(* C17: a ping is answered with success true and status ready in every     *)
(* state, before and after initialization, the initialized flag of the     *)
(* answer being the initialization state at that moment, and the step      *)
(* that answers it starts no detection and no fill.                        *)
C17_PingAlwaysReady ==
    [][response'.kind = "ping" /\ response' # response =>
          /\ response'.success
          /\ response'.status = "ready"
          /\ response'.initialized = isInitialized
          /\ UNCHANGED << isInitialized, portalConfig, detectedFields, learningData,
                          dom, lastFill, passes, fills, highlightTimers >>]_<<vars, pure>>

C17_Witness ==
    /\ response.kind = "ping"
    /\ response.success
    /\ response.status = "ready"
    /\ ~response.initialized
    /\ ~isInitialized

(***************************************************************************)
(* Re-detection after mutations                                            *)
(***************************************************************************)
(* C18: no re-detection pass starts until 500 ms have passed since the     *)
(* last mutation that added a form control, so that a burst of mutations   *)
(* less than 500 ms apart triggers one pass, after the burst has ended,    *)
(* and not one pass per mutation.                                          *)
C18_RedetectionDebounced ==
    [][observer'.redetections > observer.redetections =>
          /\ observer.sinceMutation >= 500
          /\ observer'.redetections <= observer'.bursts]_<<vars, pure>>

(* every detection pass that was asked for has run *)
AllPassesFinished == Len(observer.timers) = 0 /\ observer.requests > 0

(* C19 as stated: once all passes have finished the stored detected-field  *)
(* list is the complete output of the most recently requested pass, and    *)
(* at no moment does the list a fill would read mix two passes.            *)
C19_ListOfNewestRequest ==
    /\ AllPassesFinished => detectedFields = observer.newest.fields
    /\ detectedFields = observer.last.fields

(* C19 amended: at every moment, so whenever a fill reads it and once all  *)
(* passes have finished, the stored detected-field list is exactly the     *)
(* complete output of the pass that ran last, whatever the order in which  *)
(* the passes were asked for; no entry of an earlier pass is left in it.   *)
C19_ListOfLastPass == detectedFields = observer.last.fields

C19_Witness ==
    /\ AllPassesFinished
    /\ observer.redetections > 0
    /\ observer.last.id < observer.newest.id
    /\ observer.last.fields # observer.newest.fields
    /\ detectedFields = observer.last.fields
    /\ Len(detectedFields) > 0

(***************************************************************************)
(* The learned-pattern cache                                               *)
(***************************************************************************)
(* C20 as stated: the cache holds at most 1000 entries, and an entry that  *)
(* is evicted is the one whose last write is the oldest: no entry that     *)
(* stays was written before it.                                            *)
C20_EvictsOldestWrite ==
    /\ Len(learner.cache) <= 1000
    /\ \A gone \in learner.evicted : \A kept \in Keys(learner.cache) :
          learner.written[gone] <= learner.written[kept]

(* C20 amended: the cache holds at most 1000 entries, one per fingerprint, *)
(* and an entry that is evicted is the one that was inserted first: no     *)
(* entry that stays was inserted before it, whenever either was last       *)
(* written.                                                                *)
C20_EvictsFirstInserted ==
    /\ Len(learner.cache) <= 1000
    /\ Cardinality(Keys(learner.cache)) = Len(learner.cache)
    /\ Cardinality(learner.evicted) <= 1
    /\ \A gone \in learner.evicted : \A kept \in Keys(learner.cache) :
          learner.inserted[gone] <= learner.inserted[kept]

C20_Witness ==
    /\ learner.stores = 2
    /\ Len(learner.cache) = 1000
    /\ learner.evicted = {Fingerprint(LongFormControl(1))}
    /\ learner.written[Fingerprint(LongFormControl(1))] = learner.clock - 1
    /\ learner.written[Fingerprint(LongFormControl(2))] = 2
    /\ Fingerprint(LongFormControl(2)) \in Keys(learner.cache)

(***************************************************************************)
(* The aggregator                                                          *)
(***************************************************************************)
(* the votes given to the aggregator, and those of one category *)
AllVotes == Flat(aggregator.resultSets)

VotesOf(category) == SelectSeq(AllVotes, LAMBDA v : v.field = category)

VotedCategories == {AllVotes[i].field : i \in 1..Len(AllVotes)}

RECURSIVE WeightedTotal(_)
(* sum of confidence times method weight *)
WeightedTotal(votes) ==
    IF Len(votes) = 0 THEN 0
    ELSE (votes[1].confidence * methodWeights(votes[1].method)) \div 100
         + WeightedTotal(Tail(votes))

(* the weighted mean of a category that has a vote *)
MeanOf(category) == WeightedTotal(VotesOf(category)) \div Len(VotesOf(category))

HasRawAboveHalf(category) ==
    \E i \in 1..Len(AllVotes) :
        AllVotes[i].field = category /\ AllVotes[i].confidence * 2 > Micro

Qualifies(category) == MeanOf(category) * 2 > Micro /\ HasRawAboveHalf(category)

(* C21: the aggregator returns the category with the highest weighted mean *)
(* provided that mean exceeds 0.5 and one of its votes has a raw           *)
(* confidence above 0.5; when no category meets both conditions it returns *)
(* null and leaves the learned cache as it was.                            *)
C21_HighestQualifiedMean ==
    aggregator.called =>
        IF \E c \in VotedCategories : Qualifies(c)
        THEN /\ aggregator.result.category \in VotedCategories
             /\ Qualifies(aggregator.result.category)
             /\ aggregator.result.confidence = MeanOf(aggregator.result.category)
             /\ \A c \in VotedCategories : MeanOf(c) <= aggregator.result.confidence
        ELSE /\ aggregator.result = NoResult
             /\ aggregator.learnedAfter = aggregator.learned

C21_Witness ==
    /\ aggregator.called
    /\ aggregator.resultSets = << << CandidateVotes[4], CandidateVotes[1], CandidateVotes[6] >> >>
    /\ aggregator.result.category = "firstName"
    /\ aggregator.result.confidence = 602500
    /\ aggregator.learnedAfter # aggregator.learned

(* C22: when two or more categories have the same highest weighted mean,   *)
(* the aggregator selects the one of the higher taxonomy priority,         *)
(* whatever the order of the votes.                                        *)
C22_TieGoesToHigherPriority ==
    aggregator.called /\ aggregator.result.category # "null" =>
        \A c \in VotedCategories :
            MeanOf(c) = aggregator.result.confidence =>
                MASTER_FIELD_DATABASE[c].priority
                    <= MASTER_FIELD_DATABASE[aggregator.result.category].priority

(* C30: a category's weighted mean is never above the highest raw          *)
(* confidence of its votes, every method weight being at most 1; so a      *)
(* category whose mean exceeds 0.5 has a vote of raw confidence above 0.5  *)
(* and the raw-confidence condition rejects no category that passed the    *)
(* mean threshold.                                                         *)
C30_MeanBelowHighestRaw ==
    aggregator.called =>
        \A c \in VotedCategories :
            /\ \E i \in 1..Len(AllVotes) :
                  AllVotes[i].field = c /\ MeanOf(c) <= AllVotes[i].confidence
            /\ MeanOf(c) * 2 > Micro => HasRawAboveHalf(c)

C30_Witness ==
    /\ aggregator.called
    /\ aggregator.resultSets = << << CandidateVotes[5], CandidateVotes[7] >> >>
    /\ MeanOf("fullName") = 980000
    /\ MeanOf("phone") = 480000
    /\ aggregator.result.category = "fullName"

(***************************************************************************)
(* The order of a fill                                                     *)
(***************************************************************************)
(* record a is processed before record b in the documented order *)
InFillOrder(a, b) ==
    \/ a.confidence > b.confidence
    \/ a.confidence = b.confidence /\ a.priority >= b.priority

(* C23: a fill processes the pooled records, ordinary and experience-card  *)
(* together, by non-increasing confidence and, among equal confidences, by *)
(* non-increasing priority: no record is processed before one of strictly  *)
(* higher confidence.                                                      *)
C23_FillInConfidenceOrder ==
    lastFill.called /\ ~lastFill.threw =>
        \A j, k \in 1..Len(lastFill.fieldsToFill) :
            j < k => InFillOrder(lastFill.fieldsToFill[j], lastFill.fieldsToFill[k])

(***************************************************************************)
(* The correction of a full-name control                                   *)
(***************************************************************************)
(* first-name and last-name words in the attributes and the label text *)
NameWords(element) ==
    toLowerCase(JoinWith(<< element.name, element.id, element.placeholder,
                            element.className >>, " ")
                \o " " \o getSurroundingText(element))

SaysFirst(element) == \E w \in {"first", "fname", "given", "forename"} :
                          includes(NameWords(element), w)

SaysLast(element) == \E w \in {"last", "lname", "surname", "family"} :
                         includes(NameWords(element), w)

(* C24: for a control classified as fullName whose attributes and label    *)
(* text hold a first-name keyword and no last-name keyword the resolver    *)
(* returns the profile's firstName and not the composed full name, and     *)
(* lastName when only a last-name keyword is there.                        *)
C24_FullNameOverride ==
    resolver.done /\ resolver.category = "fullName" =>
        /\ (/\ SaysFirst(resolver.element) /\ ~SaysLast(resolver.element)
            /\ resolver.firstName.t = "string" /\ resolver.firstName.v # "")
              => resolver.resolved = resolver.firstName
        /\ (/\ SaysLast(resolver.element) /\ ~SaysFirst(resolver.element)
            /\ resolver.lastName.t = "string" /\ resolver.lastName.v # "")
              => resolver.resolved = resolver.lastName

(***************************************************************************)
(* Learning within and across passes                                       *)
(***************************************************************************)
(* what the pass records for a control that is classified on its own, the  *)
(* learned cache being empty: the result a control gets when it is the     *)
(* first of the pass                                                       *)
ClassifiedAlone(control) ==
    detectFieldAdvanced(nodes[control], portalConfig, <<>>).result

SameAsAlone(field, alone) ==
    IF alone.category = "null"
    THEN field.category = "unknown" /\ field.confidence = 0
    ELSE field.category = alone.category /\ field.confidence = alone.confidence

(* C25: in a pass started with an empty learned cache, the category and    *)
(* confidence of a control do not depend on the controls classified before *)
(* it: every control gets the result it gets when classified first.        *)
C25_OrderIndependent ==
    passes = 1 =>
        \A k \in 1..Len(detectedFields) :
            ~detectedFields[k].isExperienceField =>
                SameAsAlone(detectedFields[k], ClassifiedAlone(detectedFields[k].control))

(* the category the list holds for a control outside the experience cards, *)
(* "none" when the list has no such record                                 *)
CategoryOf(fields, control) ==
    LET at == { k \in 1..Len(fields) :
                  fields[k].control = control /\ ~fields[k].isExperienceField }
    IN IF at = {} THEN "none" ELSE fields[CHOOSE k \in at : TRUE].category

(* C26: once a pass has classified a control into category c, the next     *)
(* pass over the unchanged page classifies that control into c as well     *)
C26_CategoryStableAcrossPasses ==
    [][PassStep =>
        \A k \in 1..Len(detectedFields) :
            IsClassified(detectedFields[k]) =>
                CategoryOf(detectedFields', detectedFields[k].control)
                    = detectedFields[k].category
      ]_<<vars, pure>>

(* the controls in the slots of a card *)
ControlsOf(card) == { card.fields[s] : s \in 1..Len(card.fields) } \ {0}

(* C27: in the result of one experience-card detection the controls in the *)
(* slots of two different retained cards are disjoint                      *)
C27_CardsDisjoint ==
    grouper.called =>
        \A c, d \in 1..Len(grouper.cards) :
            c # d => ControlsOf(grouper.cards[c]) \cap ControlsOf(grouper.cards[d]) = {}

(* C28: a message delivered to the listener is answered by exactly one     *)
(* call of sendResponse, whatever its type, before and after               *)
(* initialization, and when handling it throws                             *)
C28_ExactlyOneResponse ==
    /\ response.kind # "none" => response.calls = 1
    /\ lastFill.called => response.kind # "none"

(* a fillForm message whose handling threw has been answered by the catch *)
C28_Witness ==
    /\ lastFill.called
    /\ lastFill.threw
    /\ response.kind = "error"
    /\ response.calls = 1

(* C29: a stored profile is always encrypted under the encryption key held *)
(* in storage, so that a manager initialized afresh can decrypt it         *)
C29_ProfileUnderStoredKey ==
    storage.local.userProfile # NoProfile =>
        storage.local.userProfile.key = storage.local.encryptionKey
====
